---- MODULE Spec2Model ----
(***************************************************************************)
(* A model of mdpo-llm: the Markdown block parser (po/parser.py), the PO    *)
(* catalog manager (mdpo_llm/manager.py), the reference pool               *)
(* (mdpo_llm/reference_pool.py), the document reconstructor                *)
(* (po/reconstructor.py) and the orchestrator (mdpo_llm/processor.py).     *)
(*                                                                         *)
(* Representation of text.  A line without its "\n" is a record            *)
(*   [ind, mark, lvl, txt, pipe, cr]                                       *)
(* ind  : number of leading spaces                                         *)
(* mark : what follows the indentation: "blank", "fence", "hash", "hr",    *)
(*        "gt", "bullet", "num", "pipe" or "text"                          *)
(* lvl  : the number of # of a "hash" line, 0 otherwise                    *)
(* txt  : the words that follow the marker                                 *)
(* pipe : whether the line contains the character |                        *)
(* cr   : whether the line ends with a line-boundary character other than  *)
(*        "\n" (the "\r" of "\r\n", a lone "\r", "\f", ...)                *)
(* A raw source line (an element of splitlines(keepends=True)) is the same *)
(* record with the field term instead of cr: "LF", "CRLF", "CR" (a         *)
(* boundary character that is not "\n") or "NONE" (no terminator).         *)
(* A multi-line string (block text, msgid, msgstr) is the sequence of its  *)
(* lines, i.e. the string split at "\n"; the empty string is << >>.        *)
(* A string of characters (a document, a slug, a context id) is a sequence *)
(* of tokens.                                                              *)
(***************************************************************************)
EXTENDS Integers, Sequences, FiniteSets, TLC

VARIABLES doc, blocks, po, disk, pool, out, pc, cur, stats, sent, hist, ret

vars == <<doc, blocks, po, disk, pool, out, pc, cur, stats, sent, hist, ret>>

----------------------------------------------------------------------------
(* Generic helpers *)

Min(a, b) == IF a < b THEN a ELSE b

Range(s) == {s[k] : k \in 1..Len(s)}

\* Python's s[a:b] on a 0-based list, for 0 <= a
Slice(s, a, b) == SubSeq(s, a + 1, Min(b, Len(s)))

RECURSIVE Flatten(_)
Flatten(ss) == IF ss = << >> THEN << >> ELSE Head(ss) \o Flatten(Tail(ss))

\* index of the first element of s satisfying Test, 0 when there is none
FirstIndex(s, Test(_)) ==
    IF \E k \in 1..Len(s) : Test(s[k])
    THEN CHOOSE k \in 1..Len(s) : Test(s[k]) /\ \A j \in 1..(k - 1) : ~Test(s[j])
    ELSE 0

----------------------------------------------------------------------------
(* Lines *)

MkLine(ind, mark, lvl, txt, pipe, cr) ==
    [ind |-> ind, mark |-> mark, lvl |-> lvl, txt |-> txt, pipe |-> pipe, cr |-> cr]

MkRaw(ind, mark, lvl, txt, pipe, term) ==
    [ind |-> ind, mark |-> mark, lvl |-> lvl, txt |-> txt, pipe |-> pipe, term |-> term]

\* line.rstrip("\n") of a raw line: "\n" goes, any other boundary character stays
Rstrip(raw) ==
    MkLine(raw.ind, raw.mark, raw.lvl, raw.txt, raw.pipe, raw.term \in {"CRLF", "CR"})

StripAll(raws) == [k \in 1..Len(raws) |-> Rstrip(raws[k])]

\* line + "\n"
WithNewline(l) ==
    MkRaw(l.ind, l.mark, l.lvl, l.txt, l.pipe, IF l.cr THEN "CRLF" ELSE "LF")

\* one character of a document: a line's content, or a terminator character
Char(kind, l) ==
    [ch |-> kind, ind |-> l.ind, mark |-> l.mark, lvl |-> l.lvl, txt |-> l.txt,
     pipe |-> l.pipe]

NoContent == [ind |-> 0, mark |-> "", lvl |-> 0, txt |-> << >>, pipe |-> FALSE]

\* the characters of a raw line: its content, then its terminator
RawChars(raw) ==
    <<Char("content", raw)>>
    \o (IF raw.term \in {"CRLF", "CR"} THEN <<Char("\\r", NoContent)>> ELSE << >>)
    \o (IF raw.term \in {"CRLF", "LF"} THEN <<Char("\\n", NoContent)>> ELSE << >>)

\* "".join(lines)
JoinRaw(raws) == Flatten([k \in 1..Len(raws) |-> RawChars(raws[k])])

\* line.strip() == ""
IsBlank(l) == l.mark = "blank"

\* FENCE_RE.match(line.strip())
IsFence(l) == l.mark = "fence"

\* re.match(r"^(#{1,6})\s+(.*)", line)
IsHeading(l) == l.mark = "hash" /\ l.ind = 0 /\ l.lvl \in 1..6

\* re.match(r"^\s*([-*_])\s*(\1\s*){2,}$", line)
IsHr(l) == l.mark = "hr"

\* line.lstrip().startswith(">")
IsQuote(l) == l.mark = "gt"

\* re.match(r"^\s*([-*+]|\d+\.)\s+", line): a bullet or number followed by
\* white space; the spaced rule "- - -" has that shape too
IsListItem(l) == l.mark \in {"bullet", "num"} \/ (l.mark = "hr" /\ l.txt = <<"- - -">>)

\* re.match(r"^\s*\d+\.", line)
IsOrdered(l) == l.mark = "num"

\* "|" in line and re.match(r"^\s*\|", line)
IsTableStart(l) == l.pipe /\ l.mark = "pipe"

\* line.startswith("#"): a heading, or a # that no white space follows
StartsWithHash(l) == l.mark \in {"hash", "hashtag"} /\ l.ind = 0

----------------------------------------------------------------------------
(* BlockParser *)

\* lines[i] of a 0-based Python list
At(ls, i) == ls[i + 1]

Punctuation == {"!", "?", "."}

Lower(w) ==
    CASE w = "Setup" -> "setup"
      [] w = "A" -> "a"
      [] w = "B" -> "b"
      [] OTHER -> w

RECURSIVE JoinWith(_, _)
JoinWith(ws, sep) ==
    IF ws = << >> THEN << >>
    ELSE IF Len(ws) = 1 THEN <<ws[1]>>
    ELSE <<ws[1], sep>> \o JoinWith(Tail(ws), sep)

\* slugify: lower-case, drop what is neither a word character, white space nor
\* a hyphen, turn white space into hyphens, strip hyphens, default "section"
slugify(title) ==
    LET IsWord(w) == w \notin Punctuation
        kept == SelectSeq(title, IsWord)
        words == [k \in 1..Len(kept) |-> Lower(kept[k])]
    IN  IF words = << >> THEN <<"section">> ELSE JoinWith(words, "-")

RECURSIVE JoinPath(_)
JoinPath(path) ==
    IF path = << >> THEN << >>
    ELSE IF Len(path) = 1 THEN path[1]
    ELSE path[1] \o <<"/">> \o JoinPath(Tail(path))

\* context_id with a slip: keyed by the block's first line, not by its index
context_id_ByText(block) ==
    JoinPath(block.path) \o <<"::", block.type, ":">> \o block.text[1].txt

\* f"{'/'.join(block['path'])}::{block['type']}:{block['idx_in_section']}"
context_id(block) ==
    JoinPath(block.path) \o <<"::", block.type, ":", ToString(block.idx_in_section)>>

MkBlock(type, ls, start, end, path) ==
    [type |-> type, text |-> Slice(ls, start, end), start |-> start, end |-> end,
     path |-> path]

\* the index at which a "while i < len(lines) and Cont(i): i += 1" loop that
\* starts at from stops
ScanEnd(ls, from, Cont(_)) ==
    IF from >= Len(ls) THEN from
    ELSE CHOOSE j \in from..Len(ls) :
            /\ j = Len(ls) \/ ~Cont(j)
            /\ \A k \in from..(j - 1) : Cont(k)

\* ParseCodeEnd with a slip: the end is not capped at the number of lines
ParseCodeEnd_Uncapped(ls, start) ==
    LET fence == At(ls, start).txt[1]
        Open(i) == ~(At(ls, i).mark = "fence" /\ At(ls, i).txt[1] = fence)
    IN  ScanEnd(ls, start + 1, Open) + 1

\* _parse_code_block: through the closing fence, or to the end of the input
ParseCodeEnd(ls, start) ==
    LET fence == At(ls, start).txt[1]
        Open(i) == ~(At(ls, i).mark = "fence" /\ At(ls, i).txt[1] = fence)
        i == ScanEnd(ls, start + 1, Open)
    IN  Min(i + 1, Len(ls))

\* _parse_blockquote
ParseQuoteEnd(ls, start) ==
    LET Cont(i) == IsQuote(At(ls, i)) IN ScanEnd(ls, start + 1, Cont)

\* _parse_table
ParseTableEnd(ls, start) ==
    LET Cont(i) == At(ls, i).pipe IN ScanEnd(ls, start + 1, Cont)

\* _is_other_block_start
IsOtherBlockStart(l) ==
    IsFence(l) \/ IsHeading(l) \/ IsQuote(l) \/ IsHr(l) \/ IsTableStart(l)

\* _parse_paragraph
ParseParagraphEnd(ls, start) ==
    LET Cont(i) ==
            LET l == At(ls, i)
            IN  /\ ~IsBlank(l)
                /\ ~(IsFence(l) \/ IsHeading(l) \/ IsListItem(l) \/ IsQuote(l)
                     \/ IsHr(l) \/ IsTableStart(l))
    IN  ScanEnd(ls, start + 1, Cont)

\* ListContinues with a slip: a blank line is consumed only before an item of
\* the list's ordered-ness at the list's base indentation
ListContinues_SameKindOnly(ls, i, base_indent, is_ordered) ==
    LET line == At(ls, i)
        Blank(k) == IsBlank(At(ls, k))
        next_i == ScanEnd(ls, i + 1, Blank)
    IN  IF IsListItem(line)
        THEN /\ ~(line.ind = base_indent /\ IsOrdered(line) # is_ordered)
             /\ ~(line.ind < base_indent)
        ELSE IF IsBlank(line)
        THEN /\ next_i < Len(ls)
             /\ IsListItem(At(ls, next_i))
             /\ At(ls, next_i).ind = base_indent
             /\ IsOrdered(At(ls, next_i)) = is_ordered
        ELSE /\ ~IsOtherBlockStart(line)
             /\ \/ line.ind >= base_indent + 2
                \/ ~IsListItem(line) /\ ~StartsWithHash(line)

\* one turn of the while loop of _parse_list: TRUE when line i is consumed
ListContinues(ls, i, base_indent, is_ordered) ==
    LET line == At(ls, i)
        Blank(k) == IsBlank(At(ls, k))
        next_i == ScanEnd(ls, i + 1, Blank)
    IN  IF IsListItem(line)
        THEN /\ ~(line.ind = base_indent /\ IsOrdered(line) # is_ordered)
             /\ ~(line.ind < base_indent)
        ELSE IF IsBlank(line)
        THEN /\ next_i < Len(ls)
             /\ IsListItem(At(ls, next_i))
             /\ ~(At(ls, next_i).ind = base_indent
                  /\ IsOrdered(At(ls, next_i)) # is_ordered)
        ELSE /\ ~IsOtherBlockStart(line)
             /\ \/ line.ind >= base_indent + 2
                \/ ~IsListItem(line) /\ ~StartsWithHash(line)

\* _parse_list
ParseListEnd(ls, start) ==
    LET first_line == At(ls, start)
        Cont(i) == ListContinues(ls, i, first_line.ind, IsOrdered(first_line))
    IN  ScanEnd(ls, start + 1, Cont)

\* the part of _parse_heading that makes the slug unique: slug_counters is the
\* set of [level, slug, count] of {level: {slug: count}}
HeadingSlug(counters, level, base_slug) ==
    IF \E c \in counters : c.level = level /\ c.slug = base_slug
    THEN LET c == CHOOSE c \in counters : c.level = level /\ c.slug = base_slug
         IN  base_slug \o <<"-", ToString(c.count + 1)>>
    ELSE base_slug

HeadingCounters(counters, level, base_slug) ==
    LET bumped ==
            IF \E c \in counters : c.level = level /\ c.slug = base_slug
            THEN {IF c.level = level /\ c.slug = base_slug
                  THEN [c EXCEPT !.count = @ + 1] ELSE c : c \in counters}
            ELSE counters \cup {[level |-> level, slug |-> base_slug, count |-> 0]}
    IN  {c \in bumped : c.level <= level}

\* path[: level - 1] + [unique_slug]
HeadingPath(path, level, unique_slug) ==
    Slice(path, 0, level - 1) \o <<unique_slug>>

\* the while loop of segment_markdown, from line i on
RECURSIVE SegmentFrom(_, _, _, _, _)
SegmentFrom(ls, i, acc, path, counters) ==
    IF i >= Len(ls) THEN acc
    ELSE LET line == At(ls, i) IN
        IF IsFence(line)
        THEN LET e == ParseCodeEnd(ls, i)
             IN  SegmentFrom(ls, e, Append(acc, MkBlock("code", ls, i, e, path)),
                             path, counters)
        ELSE IF IsHeading(line)
        THEN LET base_slug == slugify(line.txt)
                 unique_slug == HeadingSlug(counters, line.lvl, base_slug)
                 newpath == HeadingPath(path, line.lvl, unique_slug)
             IN  SegmentFrom(ls, i + 1,
                             Append(acc, MkBlock("heading", ls, i, i + 1, newpath)),
                             newpath, HeadingCounters(counters, line.lvl, base_slug))
        ELSE IF IsHr(line)
        THEN SegmentFrom(ls, i + 1, Append(acc, MkBlock("hr", ls, i, i + 1, path)),
                         path, counters)
        ELSE IF IsQuote(line)
        THEN LET e == ParseQuoteEnd(ls, i)
             IN  SegmentFrom(ls, e, Append(acc, MkBlock("quote", ls, i, e, path)),
                             path, counters)
        ELSE IF IsListItem(line)
        THEN LET e == ParseListEnd(ls, i)
                 list_type == IF IsOrdered(line) THEN "olist" ELSE "ulist"
             IN  SegmentFrom(ls, e, Append(acc, MkBlock(list_type, ls, i, e, path)),
                             path, counters)
        ELSE IF IsTableStart(line)
        THEN LET e == ParseTableEnd(ls, i)
             IN  SegmentFrom(ls, e, Append(acc, MkBlock("table", ls, i, e, path)),
                             path, counters)
        ELSE IF IsBlank(line)
        THEN SegmentFrom(ls, i + 1, acc, path, counters)
        ELSE LET e == ParseParagraphEnd(ls, i)
             IN  SegmentFrom(ls, e, Append(acc, MkBlock("para", ls, i, e, path)),
                             path, counters)

\* add_section_indices with a slip: the counter is kept per path, for all
\* types together
add_section_indices_PerPath(bs) ==
    [k \in 1..Len(bs) |->
        [type |-> bs[k].type, text |-> bs[k].text, start |-> bs[k].start,
         end |-> bs[k].end, path |-> bs[k].path,
         idx_in_section |->
            Cardinality({j \in 1..(k - 1) : bs[j].path = bs[k].path})]]

\* _add_section_indices: a running counter per (path, type)
add_section_indices(bs) ==
    [k \in 1..Len(bs) |->
        [type |-> bs[k].type, text |-> bs[k].text, start |-> bs[k].start,
         end |-> bs[k].end, path |-> bs[k].path,
         idx_in_section |->
            Cardinality({j \in 1..(k - 1) :
                            bs[j].path = bs[k].path /\ bs[j].type = bs[k].type})]]

\* segment_markdown(lines), lines without their "\n"
segment_markdown(ls) == add_section_indices(SegmentFrom(ls, 0, << >>, << >>, {}))

----------------------------------------------------------------------------
(* POManager: the catalog is the list of entries of a polib.POFile *)

\* MarkdownProcessor.SKIP_TYPES
SKIP_TYPES == {"hr"}

EmptyText == << >>

\* polib.POEntry(msgctxt=ctx, msgid=text, msgstr=msgstr)
POEntry(ctx, text, msgstr) ==
    [msgctxt |-> ctx, msgid |-> text, msgstr |-> msgstr, fuzzy |-> FALSE,
     obsolete |-> FALSE]

\* next((e for e in po_file if e.msgctxt == ctx), None), as an index (0: None)
FindEntry(entries, ctx) ==
    LET Hit(e) == e.msgctxt = ctx IN FirstIndex(entries, Hit)

\* SyncBlock with a slip: a changed text also clears the translation
SyncBlock_ClearsMsgstr(entries, block) ==
    LET ctx == context_id(block)
        text == block.text
        k == FindEntry(entries, ctx)
    IN  IF k = 0 THEN Append(entries, POEntry(ctx, text, EmptyText))
        ELSE IF block.type \in SKIP_TYPES THEN [entries EXCEPT ![k].msgid = text]
        ELSE IF entries[k].msgid # text
             THEN [entries EXCEPT ![k].msgid = text, ![k].fuzzy = TRUE,
                                  ![k].msgstr = EmptyText]
             ELSE entries

\* SyncBlock with a slip: the skip kinds are treated like the other kinds
SyncBlock_NoSkipKinds(entries, block) ==
    LET ctx == context_id(block)
        text == block.text
        k == FindEntry(entries, ctx)
    IN  IF k = 0 THEN Append(entries, POEntry(ctx, text, EmptyText))
        ELSE IF entries[k].msgid # text
             THEN [entries EXCEPT ![k].msgid = text, ![k].fuzzy = TRUE]
             ELSE entries

\* SyncBlock with a slip: every entry found for a non-skip block is marked stale
SyncBlock_AlwaysStale(entries, block) ==
    LET ctx == context_id(block)
        text == block.text
        k == FindEntry(entries, ctx)
    IN  IF k = 0 THEN Append(entries, POEntry(ctx, text, EmptyText))
        ELSE IF block.type \in SKIP_TYPES THEN [entries EXCEPT ![k].msgid = text]
        ELSE [entries EXCEPT ![k].msgid = text, ![k].fuzzy = TRUE]

\* the body of the for loop of sync_po, for one block
SyncBlock(entries, block) ==
    LET ctx == context_id(block)
        text == block.text
        k == FindEntry(entries, ctx)
    IN  IF block.type \in SKIP_TYPES
        THEN IF k = 0 THEN Append(entries, POEntry(ctx, text, EmptyText))
             ELSE [entries EXCEPT ![k].msgid = text]
        ELSE IF k = 0 THEN Append(entries, POEntry(ctx, text, EmptyText))
             ELSE IF entries[k].msgid # text
                  THEN [entries EXCEPT ![k].msgid = text, ![k].fuzzy = TRUE]
                  ELSE entries

RECURSIVE SyncBlocks(_, _)
SyncBlocks(entries, bs) ==
    IF bs = << >> THEN entries
    ELSE SyncBlocks(SyncBlock(entries, Head(bs)), Tail(bs))

\* MarkMissingObsolete with a slip: no entry is marked
MarkMissingObsolete_Never(entries, seen) == entries

\* "Mark missing entries as obsolete"
MarkMissingObsolete(entries, seen) ==
    [k \in 1..Len(entries) |->
        IF entries[k].msgctxt \notin seen
        THEN [entries[k] EXCEPT !.obsolete = TRUE] ELSE entries[k]]

\* _remove_obsolete_entries: every entry polib lists as obsolete is removed
remove_obsolete_entries(entries) ==
    LET Live(e) == ~e.obsolete IN SelectSeq(entries, Live)

\* sync_po(po_file, blocks, context_id)
sync_po(entries, bs) ==
    LET seen == {context_id(bs[k]) : k \in 1..Len(bs)}
    IN  remove_obsolete_entries(MarkMissingObsolete(SyncBlocks(entries, bs), seen))

\* _remove_obsolete_entries, "if not po: raise ValueError": an empty POFile is
\* a false value, so the call at the end of sync_po raises when the catalog
\* holds no entry
sync_po_raises(entries, bs) == SyncBlocks(entries, bs) = << >>

\* save_po, "if not po: raise ValueError": nothing is written for a catalog
\* without entries; otherwise the file holds the entries
save_po(entries, file) == IF entries = << >> THEN file ELSE entries

\* load_or_create_po: the entries of the file, flags and obsolete marks
\* included; no entry when there is no file
load_or_create_po(file) == file

\* RedrawBlock with a slip: the entry of a non-skip block gets no processed text
RedrawBlock_Untranslated(entries, block) ==
    LET ctx == context_id(block)
        k == FindEntry(entries, ctx)
    IN  IF k = 0 THEN Append(entries, POEntry(ctx, block.text, EmptyText))
        ELSE IF block.type \in SKIP_TYPES THEN [entries EXCEPT ![k].msgid = block.text]
        ELSE entries

\* the body of the for loop of redraw_context, for one block
RedrawBlock(entries, block) ==
    LET ctx == context_id(block)
        text == block.text
        k == FindEntry(entries, ctx)
    IN  IF block.type \in SKIP_TYPES
        THEN IF k = 0 THEN Append(entries, POEntry(ctx, text, EmptyText))
             ELSE [entries EXCEPT ![k].msgid = text]
        ELSE IF k = 0 THEN Append(entries, POEntry(ctx, text, text))
             ELSE entries

RECURSIVE RedrawBlocks(_, _)
RedrawBlocks(entries, bs) ==
    IF bs = << >> THEN entries
    ELSE RedrawBlocks(RedrawBlock(entries, Head(bs)), Tail(bs))

\* redraw_context(blocks, context_id): a new POFile is filled from the blocks
redraw_context(bs) == RedrawBlocks(<< >>, bs)

\* get_unprocessed_entries, for a catalog with entries
get_unprocessed_entries(entries) ==
    LET Unprocessed(e) == ~e.obsolete /\ (e.msgstr = EmptyText \/ e.fuzzy)
    IN  SelectSeq(entries, Unprocessed)

\* get_unprocessed_entries, "if not po: raise ValueError"
get_unprocessed_entries_raises(entries) == entries = << >>

\* mark_entry_processed with a slip: the flag is set, not removed
mark_entry_processed_Flagged(e) == [e EXCEPT !.fuzzy = TRUE]

\* mark_entry_processed
mark_entry_processed(e) == [e EXCEPT !.fuzzy = FALSE]

----------------------------------------------------------------------------
(* DocumentReconstructor *)

\* next((e for e in po_file if e.msgctxt == context_id and not e.obsolete), None)
FindLiveEntry(entries, ctx) ==
    LET Hit(e) == e.msgctxt = ctx /\ ~e.obsolete IN FirstIndex(entries, Hit)

\* TranslatedLines with a slip: a blank line follows every line of msgstr
TranslatedLines_Spaced(msgstr) ==
    Flatten([k \in 1..Len(msgstr) |->
                <<WithNewline(msgstr[k]), MkRaw(0, "blank", 0, << >>, FALSE, "LF")>>])

\* [line + "\n" for line in entry.msgstr.split("\n")]
TranslatedLines(msgstr) == [k \in 1..Len(msgstr) |-> WithNewline(msgstr[k])]

\* what the body of the for loop of rebuild_markdown emits for one block
\* (after the gap): the source lines, or the lines of msgstr
BlockOutput(source_lines, block, entries) ==
    LET k == FindLiveEntry(entries, context_id(block))
    IN  IF block.type \in SKIP_TYPES
        THEN Slice(source_lines, block.start, block.end)
        ELSE IF k # 0 /\ entries[k].msgstr # EmptyText
             THEN TranslatedLines(entries[k].msgstr)
             ELSE Slice(source_lines, block.start, block.end)

\* GapOutput with a slip: the gap is dropped
GapOutput_Dropped(source_lines, position, block) == << >>

\* the gap copied before a block
GapOutput(source_lines, position, block) ==
    IF position < block.start THEN Slice(source_lines, position, block.start)
    ELSE << >>

\* the list "output" of rebuild_markdown, from block list bs on
RECURSIVE RebuildFrom(_, _, _, _)
RebuildFrom(source_lines, bs, entries, position) ==
    IF bs = << >>
    THEN IF position < Len(source_lines)
         THEN Slice(source_lines, position, Len(source_lines)) ELSE << >>
    ELSE GapOutput(source_lines, position, Head(bs))
         \o BlockOutput(source_lines, Head(bs), entries)
         \o RebuildFrom(source_lines, Tail(bs), entries, Head(bs).end)

RebuildLines(source_lines, bs, entries) == RebuildFrom(source_lines, bs, entries, 0)

\* rebuild_markdown: "".join(output)
rebuild_markdown(source_lines, bs, entries) ==
    JoinRaw(RebuildLines(source_lines, bs, entries))

----------------------------------------------------------------------------
(* ReferencePool: _pairs is a list of <<source, translation>> *)

\* seed_from_po, on an empty pool
seed_from_po(entries) ==
    LET Usable(e) == ~e.obsolete /\ ~e.fuzzy /\ e.msgstr # EmptyText
        picked == SelectSeq(entries, Usable)
    IN  [k \in 1..Len(picked) |-> <<picked[k].msgid, picked[k].msgstr>>]

\* PoolAdd with a slip: the pool is started again with the new pair
PoolAdd_Restarted(pairs, source, translation) == <<<<source, translation>>>>

\* add
PoolAdd(pairs, source, translation) == Append(pairs, <<source, translation>>)

----------------------------------------------------------------------------
(* MarkdownProcessor *)

\* _extract_block_type_from_msgctxt: what stands between "::" and the next ":"
extract_block_type_from_msgctxt(msgctxt) ==
    LET IsSep(t) == t = "::"
        start == FirstIndex(msgctxt, IsSep)
        rest == SubSeq(msgctxt, start + 1, Len(msgctxt))
        IsColon(t) == t = ":"
        end == FirstIndex(rest, IsColon)
    IN  IF start = 0 \/ end = 0 THEN << >> ELSE SubSeq(rest, 1, end - 1)

IsSkipEntry(e) == \E t \in SKIP_TYPES : extract_block_type_from_msgctxt(e.msgctxt) = <<t>>

\* needs_translation = (not entry.msgstr) or ("fuzzy" in entry.flags)
NeedsTranslation(e) == e.msgstr = EmptyText \/ e.fuzzy

\* the entry after a successful collaborator call (not inplace)
EntryProcessed(e, processed) == mark_entry_processed([e EXCEPT !.msgstr = processed])

\* EntryFailed with a slip: a failure clears the processed text
EntryFailed_Cleared(e) == [e EXCEPT !.msgstr = EmptyText]

\* EntryFailed with a slip: a failure marks the entry stale
EntryFailed_Flagged(e) == [e EXCEPT !.fuzzy = TRUE]

\* the entry after a failed collaborator call
EntryFailed(e) == e

----------------------------------------------------------------------------
(* Inputs: documents over a small alphabet of lines *)

\* the longest document of SpecSync, of Spec and of SpecRebuild, in lines
MaxSyncLines == 3
MaxRunLines == 3
MaxRebuildLines == 3

Body(ind, mark, lvl, txt, pipe) ==
    [ind |-> ind, mark |-> mark, lvl |-> lvl, txt |-> txt, pipe |-> pipe]

BlankBody == Body(0, "blank", 0, << >>, FALSE)     \* ""
HeadingBody(t) == Body(0, "hash", 1, <<t>>, FALSE) \* "# A"
TextBody(t) == Body(0, "text", 0, <<t>>, FALSE)    \* "a"
RuleBody == Body(0, "hr", 0, <<"---">>, FALSE)     \* "---"
QuoteBody(t) == Body(0, "gt", 0, <<t>>, FALSE)     \* "> q"
StarRuleBody == Body(0, "hr", 0, <<"***">>, FALSE) \* "***"

\* a raw line: a body and its terminator
Raw(body, term) == MkRaw(body.ind, body.mark, body.lvl, body.txt, body.pipe, term)

SeqsUpTo(S, n) == UNION {[1..m -> S] : m \in 0..n}

\* documents whose lines all end with "\n"
LfDocs(bodies, n) ==
    {[k \in 1..Len(bs) |-> Raw(bs[k], "LF")] : bs \in SeqsUpTo(bodies, n)}

SyncBodies == {HeadingBody("A"), TextBody("a"), TextBody("b"), RuleBody}
SyncDocs == LfDocs(SyncBodies, MaxSyncLines)

RunBodies == {TextBody("a"), TextBody("b"), RuleBody}
RunDocs == LfDocs(RunBodies, MaxRunLines)

\* what the collaborator returns: a one-line text
TrText == <<MkLine(0, "text", 0, <<"T">>, FALSE, FALSE)>>

\* the answers of the collaborator: a translation, or the empty string
Answers == {TrText, EmptyText}

----------------------------------------------------------------------------
(* History (ghost) values, written by the actions and read by the properties *)

\* exactly one entry per block, carrying its text, none obsolete
Reconciled(entries, bs) ==
    /\ Len(entries) = Len(bs)
    /\ \A k \in 1..Len(bs) :
          Cardinality({j \in 1..Len(entries) :
                          entries[j].msgctxt = context_id(bs[k])}) = 1
    /\ \A k \in 1..Len(bs) : \E j \in 1..Len(entries) :
          entries[j].msgctxt = context_id(bs[k]) /\ entries[j].msgid = bs[k].text
    /\ \A j \in 1..Len(entries) : ~entries[j].obsolete

BlockLevel(b) == IF b.type = "heading" THEN b.text[1].lvl ELSE 0

\* same kinds, same order, same heading nesting
SameShape(b0, b1) ==
    /\ Len(b0) = Len(b1)
    /\ \A k \in 1..Len(b0) :
          b0[k].type = b1[k].type /\ BlockLevel(b0[k]) = BlockLevel(b1[k])

TextDiffs(b0, b1) == {k \in 1..Len(b0) : b0[k].text # b1[k].text}

\* the two block lists differ only in the text of one block
OneTextEdit(b0, b1) == SameShape(b0, b1) /\ Cardinality(TextDiffs(b0, b1)) = 1

EditedBlock(b0, b1) == CHOOSE k \in TextDiffs(b0, b1) : TRUE

BlockSig(b) == <<b.type, b.text>>

WithoutBlock(bs, k) == SubSeq(bs, 1, k - 1) \o SubSeq(bs, k + 1, Len(bs))

\* the k for which b1 is b0 with block k removed, every other block keeping
\* its kind and text
RemovedBlocks(b0, b1) ==
    {k \in 1..Len(b0) :
        [j \in 1..Len(b1) |-> BlockSig(b1[j])]
            = [j \in 1..(Len(b0) - 1) |-> BlockSig(WithoutBlock(b0, k)[j])]}

\* every block of b1 has the context id of the block of b0 it comes from,
\* when b1 is b0 without block k
KeepsContextIds(b0, b1, k) ==
    /\ \A j \in 1..(k - 1) : context_id(b1[j]) = context_id(b0[j])
    /\ \A j \in k..Len(b1) : context_id(b1[j]) = context_id(b0[j + 1])

SameContextIds(b0, b1) ==
    /\ Len(b0) = Len(b1)
    /\ \A k \in 1..Len(b0) : context_id(b0[k]) = context_id(b1[k])

\* the case a call of sync_po is: "same" (the block list of the call before it,
\* with nothing in between), or, on a catalog reconciled with the block list
\* b0: "text" (b1 differs from b0 in the text of one non-skip block, all
\* context ids the same), "removed" (b1 is b0 without one block, the others
\* keeping their context ids), "shifted" (b1 is b0 without one block, some
\* other block getting another context id); "none" otherwise
SyncCase(entries, b0, b1, lastOp) ==
    IF b0 = b1 /\ lastOp = "sync" THEN "same"
    ELSE IF ~Reconciled(entries, b0) THEN "none"
    ELSE IF /\ OneTextEdit(b0, b1)
            /\ SameContextIds(b0, b1)
            /\ b0[EditedBlock(b0, b1)].type \notin SKIP_TYPES THEN "text"
    ELSE IF \E k \in RemovedBlocks(b0, b1) : KeepsContextIds(b0, b1, k) THEN "removed"
    ELSE IF RemovedBlocks(b0, b1) # {} THEN "shifted"
    ELSE "none"

\* the case a re-segmentation is: the text of one block that is no heading
\* changed ("text"), the text of one heading changed ("title"), or "none"
SegmentCase(b0, b1) ==
    IF ~OneTextEdit(b0, b1) THEN "none"
    ELSE IF b0[EditedBlock(b0, b1)].type = "heading" THEN "title"
    ELSE "text"

Pending(entries) ==
    {entries[k].msgctxt : k \in {j \in 1..Len(entries) :
        ~entries[j].obsolete /\ ~IsSkipEntry(entries[j]) /\ NeedsTranslation(entries[j])}}

NoHist == [op |-> "init", case |-> "none", pending0 |-> {}]

ZeroStats == [processed |-> 0, failed |-> 0, skipped |-> 0]

----------------------------------------------------------------------------
(* SpecSync: a catalog loaded from disk, reconciled again and again with the
   segmentation of an edited document; entries get processed in between *)

\* the entries of a PO file written for document d by an earlier run and then
\* touched by gettext tools, which flagged the entries of obs obsolete
CatalogOf(d, obs) ==
    LET bs == segment_markdown(StripAll(d))
    IN  [k \in 1..Len(bs) |->
            [msgctxt |-> context_id(bs[k]), msgid |-> bs[k].text,
             msgstr |-> IF bs[k].type \in SKIP_TYPES THEN EmptyText ELSE TrText,
             fuzzy |-> FALSE, obsolete |-> k \in obs]]

LoadedCatalogs ==
    UNION {{CatalogOf(d, obs) : obs \in SUBSET (1..Len(segment_markdown(StripAll(d))))}
              : d \in SyncDocs}

InitSync ==
    /\ po \in LoadedCatalogs
    /\ disk = << >>
    /\ doc = << >>
    /\ blocks = << >>
    /\ pool = << >>
    /\ out = << >>
    /\ pc = "idle"
    /\ cur = 0
    /\ stats = ZeroStats
    /\ sent = << >>
    /\ hist = NoHist
    /\ ret = << >>

\* sync_po(po_file, segment_markdown(lines of d), context_id)
SyncPo(d) ==
    /\ doc' = d
    /\ blocks' = segment_markdown(StripAll(d))
    /\ IF sync_po_raises(po, blocks')
       THEN /\ po' = po
            /\ hist' = [op |-> "raise", case |-> "none", pending0 |-> {}]
       ELSE /\ po' = sync_po(po, blocks')
            /\ hist' = [op |-> "sync", pending0 |-> {},
                        case |-> SyncCase(po, blocks, blocks', hist.op)]
    /\ UNCHANGED <<disk, pool, out, pc, cur, stats, sent>>
    /\ UNCHANGED ret

\* a pending entry is filled and marked processed
FillEntry(k) ==
    /\ ~po[k].obsolete /\ ~IsSkipEntry(po[k]) /\ NeedsTranslation(po[k])
    /\ po' = [po EXCEPT ![k] = EntryProcessed(@, TrText)]
    /\ hist' = [hist EXCEPT !.op = "fill", !.case = "none"]
    /\ UNCHANGED <<doc, blocks, disk, pool, out, pc, cur, stats, sent>>
    /\ UNCHANGED ret

NextSync ==
    \/ \E d \in SyncDocs : SyncPo(d)
    \/ \E k \in 1..Len(po) : FillEntry(k)

SpecSync == InitSync /\ [][NextSync]_vars

\* the entries of a catalog without the entry keyed ctx
WithoutEntry(entries, ctx) ==
    LET Other(e) == e.msgctxt # ctx IN SelectSeq(entries, Other)

\* C1: when sync_po is run with a block list that differs from the previously
\* reconciled one only in the text of one non-skip block (all context ids the
\* same), exactly that block's entry gets its msgid overwritten and its fuzzy
\* flag set, its msgstr is retained, no other entry changes and none is purged.
C1_TextEditMarksOneEntryStale ==
    [][(hist'.op = "sync" /\ hist'.case = "text")
       => LET k == EditedBlock(blocks, blocks')
              j == FindEntry(po, context_id(blocks[k]))
          IN  /\ Len(po') = Len(po)
              /\ po'[j].msgid = blocks'[k].text
              /\ po'[j].fuzzy
              /\ po'[j].msgstr = po[j].msgstr
              /\ po'[j].msgctxt = po[j].msgctxt
              /\ ~po'[j].obsolete
              /\ \A i \in 1..Len(po) : i # j => po'[i] = po[i]]_vars

\* a text edit was reconciled and the stale entry kept its processed text,
\* next to an entry that is not stale
C1_Witness ==
    /\ hist.op = "sync" /\ hist.case = "text"
    /\ \E j \in 1..Len(po) : po[j].fuzzy /\ po[j].msgstr = TrText
    /\ \E j \in 1..Len(po) : ~po[j].fuzzy

\* C2: after every sync_po call, from any starting catalog (empty, previously
\* reconciled, or loaded from disk with entries flagged obsolete), the catalog
\* holds exactly one entry per block of the given block list, each with the
\* block's text, none obsolete.
C2_SyncLeavesOneEntryPerBlock == hist.op = "sync" => Reconciled(po, blocks)

\* C3: calling sync_po twice in a row with the same block list, from any
\* starting catalog, the second call changes no entry, adds none and purges
\* none.
C3_SecondSyncChangesNothing ==
    [][(hist'.op = "sync" /\ hist'.case = "same") => po' = po]_vars

----------------------------------------------------------------------------
(* SpecSegment: a document is segmented, edited and segmented again *)

\* the longest document of SpecSegment, in lines
MaxSegmentLines == 3

Heading2Body(t) == Body(0, "hash", 2, <<t>>, FALSE) \* "## A"

SegmentBodies ==
    {HeadingBody("A"), HeadingBody("B"), Heading2Body("A"), TextBody("a"),
     TextBody("b"), RuleBody}
SegmentDocs == LfDocs(SegmentBodies, MaxSegmentLines)

InitSegment ==
    /\ doc \in SegmentDocs
    /\ blocks = segment_markdown(StripAll(doc))
    /\ po = << >>
    /\ disk = << >>
    /\ pool = << >>
    /\ out = << >>
    /\ pc = "idle"
    /\ cur = 0
    /\ stats = ZeroStats
    /\ sent = << >>
    /\ hist = NoHist
    /\ ret = << >>

\* the document is replaced by d and segmented
Resegment(d) ==
    /\ doc' = d
    /\ blocks' = segment_markdown(StripAll(d))
    /\ hist' = [op |-> "segment", case |-> SegmentCase(blocks, blocks'),
                pending0 |-> {}]
    /\ UNCHANGED <<po, disk, pool, out, pc, cur, stats, sent>>
    /\ UNCHANGED ret

NextSegment == \E d \in SegmentDocs : Resegment(d)

SpecSegment == InitSegment /\ [][NextSegment]_vars

----------------------------------------------------------------------------
(* SpecRebuild: rebuild_markdown on a document, its segmentation and a catalog
   in which each block's entry is in one of a few conditions *)

Terminators == {"LF", "CRLF", "CR"}

RebuildBodies == {BlankBody, TextBody("a"), RuleBody}

\* what str.splitlines(keepends=True) can return: every line ends with a line
\* boundary, except possibly the last one, which is then not empty
RebuildDocs ==
    {d \in SeqsUpTo({Raw(b, t) : b \in RebuildBodies, t \in Terminators \cup {"NONE"}},
                    MaxRebuildLines) :
        \A k \in 1..Len(d) :
            d[k].term = "NONE" => (k = Len(d) /\ d[k].mark # "blank")}

\* the conditions of a block's entry
Conditions == {"missing", "empty", "identity", "translated", "stale", "obsolete"}
SkipConditions == {"missing", "empty", "identity", "translated"}

ConditionsOf(bs) ==
    {f \in [1..Len(bs) -> Conditions] :
        \A k \in 1..Len(bs) : bs[k].type \in SKIP_TYPES => f[k] \in SkipConditions}

EntryIn(block, condition) ==
    [msgctxt |-> context_id(block), msgid |-> block.text,
     msgstr |-> CASE condition = "empty" -> EmptyText
                  [] condition = "identity" -> block.text
                  [] OTHER -> TrText,
     fuzzy |-> condition = "stale", obsolete |-> condition = "obsolete"]

\* a catalog with, for each block of bs, an entry in condition f[k]
CatalogIn(bs, f) ==
    Flatten([k \in 1..Len(bs) |->
                IF f[k] = "missing" THEN << >> ELSE <<EntryIn(bs[k], f[k])>>])

InitRebuild ==
    /\ doc \in RebuildDocs
    /\ blocks = segment_markdown(StripAll(doc))
    /\ po \in {CatalogIn(blocks, f) : f \in ConditionsOf(blocks)}
    /\ disk = << >>
    /\ pool = << >>
    /\ out = << >>
    /\ pc = "idle"
    /\ cur = 0
    /\ stats = ZeroStats
    /\ sent = << >>
    /\ hist = NoHist
    /\ ret = << >>

\* rebuild_markdown(source_lines, blocks, po_file, context_id)
Rebuild ==
    /\ hist.op = "init"
    /\ out' = rebuild_markdown(doc, blocks, po)
    /\ hist' = [hist EXCEPT !.op = "rebuild"]
    /\ UNCHANGED <<doc, blocks, po, disk, pool, stats, pc, cur, sent>>
    /\ UNCHANGED ret

NextRebuild == Rebuild

SpecRebuild == InitRebuild /\ [][NextRebuild]_vars

\* the catalog holds a complete entry for the block: not obsolete, not stale,
\* with a processed text
HasCompleteEntry(entries, block) ==
    \E j \in 1..Len(entries) :
        /\ entries[j].msgctxt = context_id(block)
        /\ ~entries[j].obsolete /\ ~entries[j].fuzzy
        /\ entries[j].msgstr # EmptyText

CompleteEntry(entries, block) ==
    CHOOSE j \in 1..Len(entries) :
        /\ entries[j].msgctxt = context_id(block)
        /\ ~entries[j].obsolete /\ ~entries[j].fuzzy
        /\ entries[j].msgstr # EmptyText

\* the source lines of block k, and those between the block before it and it
SourceOf(k) == [j \in 1..(blocks[k].end - blocks[k].start) |-> doc[blocks[k].start + j]]
GapBefore(k) ==
    LET from == IF k = 1 THEN 0 ELSE blocks[k - 1].end
    IN  [j \in 1..(blocks[k].start - from) |-> doc[from + j]]
GapAfterLast ==
    LET from == IF blocks = << >> THEN 0 ELSE blocks[Len(blocks)].end
    IN  [j \in 1..(Len(doc) - from) |-> doc[from + j]]

\* the document made of what Piece(k) gives for each block, the gaps in between
Assembled(Piece(_)) ==
    JoinRaw(Flatten([k \in 1..Len(blocks) |-> GapBefore(k) \o Piece(k)]) \o GapAfterLast)

\* C7: rebuild_markdown emits the processed text (split into lines, each ended
\* by a newline) for a non-skip block whose entry is complete, and the block's
\* source lines for a non-skip block whose entry is missing, empty or stale.
C7_IncompleteUnitsFallBackToSource ==
    hist.op = "rebuild" =>
        LET Piece(k) ==
                IF blocks[k].type \notin SKIP_TYPES /\ HasCompleteEntry(po, blocks[k])
                THEN [j \in 1..Len(po[CompleteEntry(po, blocks[k])].msgstr) |->
                         WithNewline(po[CompleteEntry(po, blocks[k])].msgstr[j])]
                ELSE SourceOf(k)
        IN  out = Assembled(Piece)

\* every block has a complete entry whose processed text is its source text
AllIdentity ==
    \A k \in 1..Len(blocks) :
        /\ HasCompleteEntry(po, blocks[k])
        /\ po[CompleteEntry(po, blocks[k])].msgstr = blocks[k].text

\* C8 as stated: for every document D, whether or not its last line ends with
\* a newline, rebuilding D from segment(D) and a catalog in which every unit is
\* complete with processed text equal to source text reproduces D exactly.
C8_Original == (hist.op = "rebuild" /\ AllIdentity) => out = JoinRaw(doc)

\* C8, amended: for every document D in which every line ends with a newline
\* character ("\n", alone or after "\r"), rebuilding D from segment(D) and a
\* catalog in which every unit is complete with processed text equal to source
\* text reproduces D exactly.
C8_RoundTrip ==
    (/\ hist.op = "rebuild"
     /\ AllIdentity
     /\ \A k \in 1..Len(doc) : doc[k].term \in {"LF", "CRLF"})
    => out = JoinRaw(doc)

\* a document with a two-line paragraph, one line ending "\r\n", and a rule
\* was rebuilt from an identity catalog
C8_Witness ==
    /\ hist.op = "rebuild" /\ AllIdentity
    /\ \A k \in 1..Len(doc) : doc[k].term \in {"LF", "CRLF"}
    /\ \E k \in 1..Len(blocks) :
          /\ blocks[k].type = "para" /\ Len(blocks[k].text) = 2
          /\ \E j \in 1..2 : blocks[k].text[j].cr
    /\ \E k \in 1..Len(blocks) : blocks[k].type \in SKIP_TYPES
    /\ out # << >>

\* C9: every source line not covered by a block (between blocks and after the
\* last block) appears in the output verbatim, once, in its position relative
\* to the blocks, and every skip-kind block is emitted as its source lines even
\* when the catalog holds a processed text for it.
C9_GapsAndSkipBlocksVerbatim ==
    hist.op = "rebuild" =>
        LET Piece(k) ==
                IF blocks[k].type \in SKIP_TYPES THEN SourceOf(k)
                ELSE BlockOutput(doc, blocks[k], po)
        IN  out = Assembled(Piece)

\* a document with a gap before a block and lines after the last block was
\* rebuilt, a skip block having a processed text in the catalog
C9_Witness ==
    /\ hist.op = "rebuild"
    /\ \E k \in 1..Len(blocks) : GapBefore(k) # << >>
    /\ GapAfterLast # << >>
    /\ \E k \in 1..Len(blocks) :
          /\ blocks[k].type \in SKIP_TYPES
          /\ \E j \in 1..Len(po) :
                po[j].msgctxt = context_id(blocks[k]) /\ po[j].msgstr = TrText

----------------------------------------------------------------------------
(* Spec: process_document (inplace=False) run again and again on an edited
   document, the catalog going through the PO file between the runs *)

\* the case a run on document d is: "rerun" when the run before it finished,
\* was on the same document, and all its collaborator calls succeeded and
\* returned a text that is not empty; "rerun_empty" when some of these calls
\* returned the empty string; "none" otherwise
RunCase(d) ==
    IF hist.op = "finish" /\ d = doc /\ \A i \in 1..Len(sent) : sent[i].ok
    THEN IF \A i \in 1..Len(sent) : po[FindEntry(po, sent[i].ctx)].msgstr # EmptyText
         THEN "rerun" ELSE "rerun_empty"
    ELSE "none"

\* steps 1 and 2, and the seeding of the reference pool: the document is read
\* and segmented, the catalog loaded and reconciled
StartRun(d) ==
    /\ pc = "idle"
    /\ doc' = d
    /\ blocks' = segment_markdown(StripAll(d))
    /\ LET loaded == load_or_create_po(disk)
       IN  IF sync_po_raises(loaded, blocks')
           THEN \* ValueError from sync_po, and from save_po in the finally
                /\ po' = loaded
                /\ disk' = save_po(po', disk)
                /\ hist' = [op |-> "raise", case |-> "none", pending0 |-> {}]
                /\ UNCHANGED <<pool, stats, pc, cur, sent>>
           ELSE /\ po' = sync_po(loaded, blocks')
                /\ pool' = seed_from_po(po')
                /\ stats' = ZeroStats
                /\ pc' = "loop"
                /\ cur' = 1
                /\ sent' = << >>
                /\ hist' = [op |-> "start", case |-> RunCase(d), pending0 |-> Pending(po')]
                /\ UNCHANGED disk
    /\ out' = << >> \* processed_content is a local of the run
    /\ UNCHANGED ret

\* the loop of _process_entries_sequential reaches an entry it does not send
LoopContinue ==
    /\ pc = "loop" /\ cur <= Len(po)
    /\ po[cur].obsolete \/ IsSkipEntry(po[cur]) \/ ~NeedsTranslation(po[cur])
    /\ stats' = IF ~po[cur].obsolete /\ IsSkipEntry(po[cur])
                THEN [stats EXCEPT !.skipped = @ + 1] ELSE stats
    /\ cur' = cur + 1
    /\ hist' = [hist EXCEPT !.op = "continue"]
    /\ UNCHANGED <<doc, blocks, po, disk, pool, out, pc, sent>>
    /\ UNCHANGED ret

\* the loop reaches a pending entry and the collaborator answers r
LoopSuccess(r) ==
    /\ pc = "loop" /\ cur <= Len(po)
    /\ ~po[cur].obsolete /\ ~IsSkipEntry(po[cur]) /\ NeedsTranslation(po[cur])
    /\ sent' = Append(sent, [ctx |-> po[cur].msgctxt, text |-> po[cur].msgid, ok |-> TRUE])
    /\ po' = [po EXCEPT ![cur] = EntryProcessed(@, r)]
    /\ stats' = [stats EXCEPT !.processed = @ + 1]
    /\ pool' = PoolAdd(pool, po[cur].msgid, r)
    /\ cur' = cur + 1
    /\ hist' = [hist EXCEPT !.op = "ok"]
    /\ UNCHANGED <<doc, blocks, disk, out, pc>>
    /\ UNCHANGED ret

\* the loop reaches a pending entry and the collaborator call raises
LoopFailure ==
    /\ pc = "loop" /\ cur <= Len(po)
    /\ ~po[cur].obsolete /\ ~IsSkipEntry(po[cur]) /\ NeedsTranslation(po[cur])
    /\ sent' = Append(sent, [ctx |-> po[cur].msgctxt, text |-> po[cur].msgid, ok |-> FALSE])
    /\ po' = [po EXCEPT ![cur] = EntryFailed(@)]
    /\ stats' = [stats EXCEPT !.failed = @ + 1]
    /\ cur' = cur + 1
    /\ hist' = [hist EXCEPT !.op = "fail"]
    /\ UNCHANGED <<doc, blocks, disk, pool, out, pc>>
    /\ UNCHANGED ret

\* steps 5 and 6 and the finally: the target is rebuilt and the catalog saved
FinishRun ==
    /\ pc = "loop" /\ cur > Len(po)
    /\ out' = rebuild_markdown(doc, blocks, po)
    /\ disk' = save_po(po, disk)
    /\ pc' = "idle"
    /\ hist' = [hist EXCEPT !.op = "finish"]
    /\ UNCHANGED <<doc, blocks, po, pool, cur, stats, sent>>
    /\ UNCHANGED ret

\* the run is cut short after the catalog was loaded and reconciled: an
\* interruption in the loop (no Exception, so the loop does not catch it), or an
\* exception in the rebuild or in the writing of the target; the finally saves
AbortRun ==
    /\ pc = "loop"
    /\ disk' = save_po(po, disk)
    /\ pc' = "idle"
    /\ hist' = [hist EXCEPT !.op = "abort"]
    /\ UNCHANGED <<doc, blocks, po, pool, out, cur, stats, sent>>
    /\ UNCHANGED ret

Init ==
    /\ doc = << >>
    /\ blocks = << >>
    /\ po = << >>
    /\ disk = << >>
    /\ pool = << >>
    /\ out = << >>
    /\ pc = "idle"
    /\ cur = 0
    /\ stats = ZeroStats
    /\ sent = << >>
    /\ hist = NoHist
    /\ ret = << >>

Next ==
    \/ \E d \in RunDocs : StartRun(d)
    \/ LoopContinue
    \/ \E r \in Answers : LoopSuccess(r)
    \/ LoopFailure
    \/ FinishRun
    \/ AbortRun

Spec == Init /\ [][Next]_vars

\* the entry was complete: not obsolete, not stale, with a processed text
Complete(e) == ~e.obsolete /\ ~e.fuzzy /\ e.msgstr # EmptyText

C10_FailuresAreIsolated ==
    [][/\ hist'.op = "fail"
          => /\ po' = po
             /\ pool' = pool
             /\ stats' = [stats EXCEPT !.failed = @ + 1]
       /\ hist'.op = "finish"
          => /\ {sent[i].ctx : i \in 1..Len(sent)} = hist.pending0
             /\ Len(sent) = Cardinality(hist.pending0)
             /\ stats.processed + stats.failed = Len(sent)]_vars

\* a run ended in which the call for a stale unit failed and the call for a
\* later unit succeeded
C10_Witness ==
    /\ hist.op = "finish"
    /\ \E i, j \in 1..Len(sent) : i < j /\ ~sent[i].ok /\ sent[j].ok
    /\ \E k \in 1..Len(po) : po[k].fuzzy /\ po[k].msgstr = TrText
    /\ stats.failed >= 1

\* C11: once the catalog has been loaded, process_document leaves it on disk
\* when it returns or propagates an error (the run finished, was cut short, or
\* reconciliation raised), for every catalog content, a catalog with zero
\* entries included: the file then holds the entries of the catalog in memory.
C11_CatalogSavedAtEndOfRun ==
    hist.op \in {"finish", "abort", "raise"} => disk = po

----------------------------------------------------------------------------
(* SpecOrder: the runs of Spec on documents with blocks of two non-skip kinds *)

\* the longest document of SpecOrder, in lines
MaxOrderLines == 3

OrderBodies == {TextBody("a"), QuoteBody("q"), RuleBody}
OrderDocs == LfDocs(OrderBodies, MaxOrderLines)

NextOrder ==
    \/ \E d \in OrderDocs : StartRun(d)
    \/ LoopContinue
    \/ \E r \in Answers : LoopSuccess(r)
    \/ LoopFailure
    \/ FinishRun
    \/ AbortRun

SpecOrder == Init /\ [][NextOrder]_vars

\* the place in the document of the block keyed ctx
BlockIndex(ctx) ==
    CHOOSE k \in 1..Len(blocks) :
        /\ context_id(blocks[k]) = ctx
        /\ \A j \in 1..(k - 1) : context_id(blocks[j]) # ctx

\* C12: in every run, runs on an existing catalog after blocks were inserted
\* included, the collaborator is invoked on the pending units in the document
\* order of their blocks in the current segmentation.
C12_UnitsSentInDocumentOrder ==
    \A i, j \in 1..Len(sent) :
        i < j => BlockIndex(sent[i].ctx) < BlockIndex(sent[j].ctx)

\* the units attempted so far in the run, and the successful attempts
Attempted == {sent[i].ctx : i \in 1..Len(sent)}
Successes == LET Ok(a) == a.ok IN SelectSeq(sent, Ok)

\* the pairs seeded from the catalog: the entries that were complete when the
\* loop began, which are the complete entries the loop did not attempt
SeededPairs ==
    LET Seeded(e) == Complete(e) /\ e.msgctxt \notin Attempted
        picked == SelectSeq(po, Seeded)
    IN  [k \in 1..Len(picked) |-> <<picked[k].msgid, picked[k].msgstr>>]

\* one pair for each successful attempt: the text sent and the text returned
SuccessPairs ==
    [i \in 1..Len(Successes) |->
        <<Successes[i].text, po[FindEntry(po, Successes[i].ctx)].msgstr>>]

IsPrefix(s, t) == Len(s) <= Len(t) /\ SubSeq(t, 1, Len(s)) = s

\* C13: during the loop of a run, so whenever the similarity query of a
\* pending unit is computed, the reference pool holds the pairs seeded from
\* the catalog followed by exactly one pair for each unit processed
\* successfully earlier in the run, none for a failed unit or a unit not yet
\* reached; and the pool never shrinks during the run.
C13_PoolIsSeedPlusSuccesses ==
    [][pc' = "loop"
       => /\ pool' = (SeededPairs \o SuccessPairs)'
          /\ pc = "loop" => IsPrefix(pool, pool')]_vars

\* a similarity query is due for a pending unit, after a failed unit and a
\* successful one: the pool holds the pair of the success only
C13_Witness ==
    /\ pc = "loop" /\ cur <= Len(po)
    /\ ~IsSkipEntry(po[cur]) /\ NeedsTranslation(po[cur])
    /\ \E i \in 1..Len(sent) : ~sent[i].ok
    /\ Len(Successes) = 1
    /\ pool = SuccessPairs

\* C14 as stated: if every collaborator call of a run succeeded, whatever text
\* was returned, an immediately following run on the unchanged document and
\* the saved catalog makes no collaborator call and reports processed = 0.
C14_Original ==
    hist.case \in {"rerun", "rerun_empty"} => (sent = << >> /\ stats.processed = 0)

\* C14, amended: if every collaborator call of a run succeeded and returned a
\* text that is not empty, an immediately following run (inplace=False) on the
\* unchanged document and the saved catalog makes no collaborator call and
\* reports processed = 0.
C14_RerunSendsNothing ==
    hist.case = "rerun" => (sent = << >> /\ stats.processed = 0)

\* the run after a run in which two units were processed has finished
C14_Witness ==
    /\ hist.op = "finish" /\ hist.case = "rerun"
    /\ Cardinality({k \in 1..Len(po) : Complete(po[k])}) >= 2
    /\ disk = po

----------------------------------------------------------------------------
(* SpecQuery: the operations of POManager on a catalog in which each block's
   entry is in one of a few conditions *)

\* the longest document of SpecQuery, in lines
MaxQueryLines == 2

QueryDocs == LfDocs({TextBody("a"), RuleBody, StarRuleBody}, MaxQueryLines)

InitQuery ==
    /\ doc \in QueryDocs
    /\ blocks = segment_markdown(StripAll(doc))
    /\ po \in {CatalogIn(blocks, f) : f \in [1..Len(blocks) -> Conditions]}
    /\ disk = << >>
    /\ pool = << >>
    /\ out = << >>
    /\ pc = "idle"
    /\ cur = 0
    /\ stats = ZeroStats
    /\ sent = << >>
    /\ hist = NoHist
    /\ ret = << >>

\* get_unprocessed_entries(po_file)
GetUnprocessedEntries ==
    /\ hist.op = "init"
    /\ IF get_unprocessed_entries_raises(po)
       THEN ret' = << >> /\ hist' = [hist EXCEPT !.op = "raise"]
       ELSE /\ ret' = get_unprocessed_entries(po)
            /\ hist' = [hist EXCEPT !.op = "unprocessed"]
    /\ UNCHANGED <<doc, blocks, po, disk, pool, out, pc, cur, stats, sent>>

\* whether reconciling with block list bs changes the text of a skip entry
SkipTextChanges(entries, bs) ==
    \E j \in 1..Len(entries), k \in 1..Len(bs) :
        /\ IsSkipEntry(entries[j]) /\ ~entries[j].obsolete
        /\ context_id(bs[k]) = entries[j].msgctxt
        /\ bs[k].text # entries[j].msgid

\* sync_po(po_file, segment_markdown(lines of d), context_id), once or again
Reconcile(d) ==
    /\ hist.op \in {"init", "sync"}
    /\ doc' = d
    /\ blocks' = segment_markdown(StripAll(d))
    /\ ~sync_po_raises(po, blocks')
    /\ po' = sync_po(po, blocks')
    /\ hist' = [op |-> "sync", pending0 |-> {},
                case |-> IF SkipTextChanges(po, blocks') THEN "skip_text" ELSE "none"]
    /\ UNCHANGED <<disk, pool, out, pc, cur, stats, sent, ret>>

\* redraw_context(segment_markdown(lines of d), context_id)
Redraw(d) ==
    /\ hist.op \in {"init", "sync"}
    /\ doc' = d
    /\ blocks' = segment_markdown(StripAll(d))
    /\ po' = redraw_context(blocks')
    /\ hist' = [op |-> "redraw", case |-> "none", pending0 |-> Pending(po)]
    /\ UNCHANGED <<disk, pool, out, pc, cur, stats, sent, ret>>

NextQuery ==
    \/ GetUnprocessedEntries
    \/ \E d \in QueryDocs : Reconcile(d)
    \/ \E d \in QueryDocs : Redraw(d)

SpecQuery == InitQuery /\ [][NextQuery]_vars

\* C15: get_unprocessed_entries returns exactly the entries that are not
\* obsolete, are of a non-skip kind, and have an empty processed text or are
\* stale; an entry of a skip kind is never returned.
C15_PendingQueryExcludesSkipKinds ==
    hist.op = "unprocessed" =>
        LET IsPending(e) == ~e.obsolete /\ ~IsSkipEntry(e) /\ NeedsTranslation(e)
        IN  ret = SelectSeq(po, IsPending)

\* C16: no sync_po call sets the stale flag of an entry of a skip kind,
\* whatever the text changes: an entry of a skip kind that the call keeps has
\* the text of its block as source text afterwards, and its processed text and
\* its stale flag are as before.
C16_SkipEntriesNeverStale ==
    [][hist'.op = "sync"
       => \A j \in 1..Len(po) :
             (IsSkipEntry(po[j]) /\ ~po[j].obsolete
                 /\ \E i \in 1..Len(po') : po'[i].msgctxt = po[j].msgctxt)
             => LET e == po'[FindEntry(po', po[j].msgctxt)]
                IN  /\ e.fuzzy = po[j].fuzzy
                    /\ e.msgstr = po[j].msgstr
                    /\ ~e.obsolete
                    /\ \E k \in 1..Len(blocks') :
                          context_id(blocks'[k]) = e.msgctxt /\ blocks'[k].text = e.msgid]_vars

\* a rule's text was changed and reconciled: its entry has a processed text
\* and is not stale
C16_Witness ==
    /\ hist.op = "sync" /\ hist.case = "skip_text"
    /\ \E j \in 1..Len(po) :
          IsSkipEntry(po[j]) /\ po[j].msgstr = TrText /\ ~po[j].fuzzy

\* C17: redraw_context leaves, whatever the catalog held before, exactly one
\* entry per given block, in the order of the blocks: a non-skip entry has
\* processed text = source text = the block's text, a skip entry has an empty
\* processed text, and no entry is stale or obsolete.
C17_RedrawRebuildsFromBlocks ==
    hist.op = "redraw" =>
        /\ Len(po) = Len(blocks)
        /\ \A k \in 1..Len(blocks) :
              po[k] = [msgctxt |-> context_id(blocks[k]),
                       msgid |-> blocks[k].text,
                       msgstr |-> IF blocks[k].type \in SKIP_TYPES
                                  THEN EmptyText ELSE blocks[k].text,
                       fuzzy |-> FALSE, obsolete |-> FALSE]

\* a catalog that held pending entries was redrawn for a paragraph and a rule
C17_Witness ==
    /\ hist.op = "redraw" /\ hist.pending0 # {}
    /\ \E k \in 1..Len(po) : IsSkipEntry(po[k])
    /\ \E k \in 1..Len(po) : ~IsSkipEntry(po[k]) /\ po[k].msgstr = po[k].msgid

----------------------------------------------------------------------------
(* SpecInplace: process_document(inplace=True) run again and again, the
   catalog going through the PO file between the runs *)

\* str.splitlines(keepends=True) of the characters of a text: a line ends
\* after "\r\n", "\r" or "\n"; a last line may have no terminator, and an empty
\* last line is no line. (The texts split here never hold a content that
\* follows an unterminated content.)
RECURSIVE splitlines(_)
splitlines(chars) ==
    IF chars = << >> THEN << >>
    ELSE LET c == Head(chars)
             Is(i, kind) == Len(chars) >= i /\ chars[i].ch = kind
             term == IF Is(2, "\\r") THEN IF Is(3, "\\n") THEN "CRLF" ELSE "CR"
                     ELSE IF Is(2, "\\n") THEN "LF" ELSE "NONE"
             used == CASE term = "CRLF" -> 3 [] term = "NONE" -> 1 [] OTHER -> 2
             rest == SubSeq(chars, used + 1, Len(chars))
         IN  IF term = "NONE" /\ c.mark = "blank" THEN splitlines(rest)
             ELSE <<MkRaw(c.ind, c.mark, c.lvl, c.txt, c.pipe, term)>> \o splitlines(rest)

\* _match_ctxt: the processed content is segmented and the manager's catalog
\* redrawn from its blocks; the value is the manager's new po_file
match_ctxt(processed_content) ==
    redraw_context(segment_markdown(StripAll(splitlines(processed_content))))

\* the entry after a successful collaborator call, inplace
EntryProcessedInplace(e, processed) ==
    mark_entry_processed([e EXCEPT !.msgstr = processed, !.msgid = processed])

\* the loop reaches a pending entry and the collaborator answers r, inplace
LoopSuccessInplace(r) ==
    /\ pc = "loop" /\ cur <= Len(po)
    /\ ~po[cur].obsolete /\ ~IsSkipEntry(po[cur]) /\ NeedsTranslation(po[cur])
    /\ sent' = Append(sent, [ctx |-> po[cur].msgctxt, text |-> po[cur].msgid, ok |-> TRUE])
    /\ po' = [po EXCEPT ![cur] = EntryProcessedInplace(@, r)]
    /\ stats' = [stats EXCEPT !.processed = @ + 1]
    /\ pool' = PoolAdd(pool, po'[cur].msgid, r)
    /\ cur' = cur + 1
    /\ hist' = [hist EXCEPT !.op = "ok"]
    /\ UNCHANGED <<doc, blocks, disk, out, pc, ret>>

\* steps 5 and 6 and the finally, inplace: the target is rebuilt, the
\* manager's catalog redrawn from it, and save_po(po_file, po_path) called with
\* the POFile that load_or_create_po returned ("po_file or self.po_file": the
\* redrawn one only when that POFile holds no entry)
FinishRunInplace ==
    /\ pc = "loop" /\ cur > Len(po)
    /\ out' = rebuild_markdown(doc, blocks, po)
    /\ disk' = save_po(IF po # << >> THEN po ELSE match_ctxt(out'), disk)
    /\ pc' = "idle"
    /\ hist' = [hist EXCEPT !.op = "finish"]
    /\ UNCHANGED <<doc, blocks, po, pool, cur, stats, sent, ret>>

NextInplace ==
    \/ \E d \in RunDocs : StartRun(d)
    \/ LoopContinue
    \/ \E r \in Answers : LoopSuccessInplace(r)
    \/ LoopFailure
    \/ FinishRunInplace
    \/ AbortRun

SpecInplace == Init /\ [][NextInplace]_vars

\* C18: after process_document(inplace=True) finishes, every entry of the
\* persisted catalog that has a processed text has a source text equal to it.
C18_InplaceCatalogSourceIsProcessed ==
    hist.op = "finish" =>
        \A k \in 1..Len(disk) :
            disk[k].msgstr # EmptyText => disk[k].msgid = disk[k].msgstr

----------------------------------------------------------------------------
(* SpecPool: a ReferencePool that pairs are added to and that is queried.
   Here a text is a sequence of characters, since the similarity of two texts
   is computed from their characters. *)

MaxTextLen == 2
MaxPoolPairs == 3
MaxResults == 2

PoolChars == {"a", "b"}
PoolTexts == UNION {[1..n -> PoolChars] : n \in 1..MaxTextLen}
PoolTranslations == {<<"T">>, <<"U">>}

\* the length of the common run of a from i and b from j (0-based), within
\* a[..ahi) and b[..bhi)
RECURSIVE RunLength(_, _, _, _, _, _)
RunLength(a, i, ahi, b, j, bhi) ==
    IF i < ahi /\ j < bhi /\ At(a, i) = At(b, j)
    THEN 1 + RunLength(a, i + 1, ahi, b, j + 1, bhi) ELSE 0

\* SequenceMatcher.find_longest_match(alo, ahi, blo, bhi), no junk: the
\* longest common run; of those the one that starts earliest in a; of those
\* the one that starts earliest in b. <<alo, blo, 0>> when there is none.
find_longest_match(a, alo, ahi, b, blo, bhi) ==
    LET cands == {<<i, j, RunLength(a, i, ahi, b, j, bhi)>> :
                      i \in alo..(ahi - 1), j \in blo..(bhi - 1)}
        good == {c \in cands : c[3] > 0}
        Better(c, d) ==
            \/ c[3] > d[3]
            \/ c[3] = d[3] /\ c[1] < d[1]
            \/ c[3] = d[3] /\ c[1] = d[1] /\ c[2] <= d[2]
    IN  IF good = {} THEN <<alo, blo, 0>>
        ELSE CHOOSE c \in good : \A d \in good : Better(c, d)

\* the sum of the sizes of SequenceMatcher.get_matching_blocks(): the longest
\* match, then the same to its left and to its right
RECURSIVE MatchSize(_, _, _, _, _, _)
MatchSize(a, alo, ahi, b, blo, bhi) ==
    LET m == find_longest_match(a, alo, ahi, b, blo, bhi)
    IN  IF m[3] = 0 THEN 0
        ELSE m[3]
             + (IF alo < m[1] /\ blo < m[2]
                THEN MatchSize(a, alo, m[1], b, blo, m[2]) ELSE 0)
             + (IF m[1] + m[3] < ahi /\ m[2] + m[3] < bhi
                THEN MatchSize(a, m[1] + m[3], ahi, b, m[2] + m[3], bhi) ELSE 0)

\* SequenceMatcher(None, a, b).ratio() = 2.0 * matches / (len(a) + len(b)),
\* and 1.0 for two empty texts: kept as the fraction <<numerator, denominator>>
ratio(a, b) ==
    IF Len(a) + Len(b) = 0 THEN <<1, 1>>
    ELSE <<2 * MatchSize(a, 0, Len(a), b, 0, Len(b)), Len(a) + Len(b)>>

\* r > q and r = q for two fractions
RatioGreater(r, q) == r[1] * q[2] > q[1] * r[2]
RatioEqual(r, q) == r[1] * q[2] = q[1] * r[2]

\* InsertScored with a slip: ascending order
InsertScored_Ascending(sorted, x) ==
    LET Before(y) == ~RatioGreater(y[1], x[1])
        n == Cardinality({k \in 1..Len(sorted) : Before(sorted[k])})
    IN  SubSeq(sorted, 1, n) \o <<x>> \o SubSeq(sorted, n + 1, Len(sorted))

\* one step of the stable descending sort: x, which came after every element
\* of sorted, goes behind the elements whose ratio is not smaller
InsertScored(sorted, x) ==
    LET Before(y) == ~RatioGreater(x[1], y[1])
        n == Cardinality({k \in 1..Len(sorted) : Before(sorted[k])})
    IN  SubSeq(sorted, 1, n) \o <<x>> \o SubSeq(sorted, n + 1, Len(sorted))

\* scored.sort(key=lambda x: x[0], reverse=True): stable, equal ratios keep
\* their order
RECURSIVE SortScored(_)
SortScored(scored) ==
    IF scored = << >> THEN << >>
    ELSE InsertScored(SortScored(SubSeq(scored, 1, Len(scored) - 1)),
                      scored[Len(scored)])

\* s[:n] of a Python list
PrefixSlice(s, n) ==
    IF n >= 0 THEN SubSeq(s, 1, IF n < Len(s) THEN n ELSE Len(s))
    ELSE SubSeq(s, 1, IF Len(s) + n > 0 THEN Len(s) + n ELSE 0)

\* find_similar(source_text) of a pool with the given max_results
find_similar(pairs, source_text, max_results) ==
    IF pairs = << >> THEN << >>
    ELSE LET NotSelf(p) == p[1] # source_text
             kept == SelectSeq(pairs, NotSelf)
             scored == [k \in 1..Len(kept) |->
                           <<ratio(source_text, kept[k][1]), kept[k][1], kept[k][2]>>]
             top == PrefixSlice(SortScored(scored), max_results)
         IN  [k \in 1..Len(top) |-> <<top[k][2], top[k][3]>>]

\* pool.add(source, translation)
Add(source, translation) ==
    /\ Len(pool) < MaxPoolPairs
    /\ pool' = PoolAdd(pool, source, translation)
    /\ hist' = [op |-> "add", case |-> "none", pending0 |-> {}]
    /\ UNCHANGED <<doc, blocks, po, disk, out, pc, cur, stats, sent, ret>>

\* pool.find_similar(q), the pool having been made with max_results = m
FindSimilar(q, m) ==
    /\ ret' = find_similar(pool, q, m)
    /\ hist' = [op |-> "find", case |-> "none", pending0 |-> {},
                query |-> q, max_results |-> m]
    /\ UNCHANGED <<doc, blocks, po, disk, pool, out, pc, cur, stats, sent>>

NextPool ==
    \/ \E source \in PoolTexts, translation \in PoolTranslations : Add(source, translation)
    \/ \E q \in PoolTexts, m \in 0..MaxResults : FindSimilar(q, m)

SpecPool == Init /\ [][NextPool]_vars

\* the pairs of the pool whose source is not the query, in insertion order
Eligible(q) == LET NotSelf(p) == p[1] # q IN SelectSeq(pool, NotSelf)

\* C19: find_similar(query) returns at most max_results pairs, none whose
\* source is the query; the pairs returned are pairs of the pool, in order of
\* non-increasing similarity to the query, equally similar ones in insertion
\* order; no eligible pair left out is strictly more similar than a returned
\* one; and with fewer than max_results eligible pairs all are returned.
C19_FindSimilarTopK ==
    hist.op = "find" =>
        LET q == hist.query
            el == Eligible(q)
            R(k) == ratio(q, el[k][1])
            n == Len(ret)
        IN  /\ n <= hist.max_results
            /\ \A i \in 1..n : ret[i][1] # q
            /\ n = IF Len(el) < hist.max_results THEN Len(el) ELSE hist.max_results
            /\ \E idx \in [1..n -> 1..Len(el)] :
                  /\ \A i \in 1..n : ret[i] = el[idx[i]]
                  /\ \A i, j \in 1..n :
                        i < j => \/ RatioGreater(R(idx[i]), R(idx[j]))
                                 \/ RatioEqual(R(idx[i]), R(idx[j])) /\ idx[i] < idx[j]
                  /\ \A k \in 1..Len(el) :
                        (\A i \in 1..n : idx[i] # k)
                            => \A i \in 1..n : ~RatioGreater(R(k), R(idx[i]))

\* a pool of three pairs was queried: one pair's source is the query, the
\* other two have different sources that are equally similar to it, and both
\* are returned
C19_Witness ==
    /\ hist.op = "find" /\ Len(pool) = 3 /\ hist.max_results = 2
    /\ \E k \in 1..3 : pool[k][1] = hist.query
    /\ Len(ret) = 2 /\ ret[1][1] # ret[2][1]
    /\ RatioEqual(ratio(hist.query, ret[1][1]), ratio(hist.query, ret[2][1]))
    /\ ratio(hist.query, ret[1][1])[1] > 0

\* a pool of three eligible pairs of three different similarities was queried
\* for the two most similar ones, the most similar one added last
C19_WitnessRanked ==
    /\ hist.op = "find" /\ Len(pool) = 3 /\ hist.max_results = 2
    /\ Len(Eligible(hist.query)) = 3 /\ Len(ret) = 2
    /\ ret[1] = pool[3]
    /\ RatioGreater(ratio(hist.query, ret[1][1]), ratio(hist.query, ret[2][1]))

----------------------------------------------------------------------------
(* SpecSlug: segment_markdown on documents of headings with repeated titles *)

MaxSlugLines == 3

SetupOneBody == Body(0, "hash", 1, <<"Setup", "1">>, FALSE) \* "# Setup 1"

SlugBodies ==
    {HeadingBody("Setup"), SetupOneBody, HeadingBody("A"), Heading2Body("Setup"),
     TextBody("a")}
SlugDocs == LfDocs(SlugBodies, MaxSlugLines)

InitSlug ==
    /\ doc \in SlugDocs
    /\ blocks = segment_markdown(StripAll(doc))
    /\ po = << >>
    /\ disk = << >>
    /\ pool = << >>
    /\ out = << >>
    /\ pc = "idle"
    /\ cur = 0
    /\ stats = ZeroStats
    /\ sent = << >>
    /\ hist = NoHist
    /\ ret = << >>

NextSlug == \E d \in SlugDocs : Resegment(d)

SpecSlug == InitSlug /\ [][NextSlug]_vars

\* the headings of the segmentation, as indices into blocks
Headings == {k \in 1..Len(blocks) : blocks[k].type = "heading"}

\* the depth, the title and the slug of heading k
Depth(k) == blocks[k].text[1].lvl
Title(k) == blocks[k].text[1].txt
Slug(k) == blocks[k].path[Len(blocks[k].path)]

\* headings k < j have the same depth and the same parent heading: no
\* heading between them is less deep
Siblings(k, j) ==
    /\ k \in Headings /\ j \in Headings /\ k < j
    /\ Depth(k) = Depth(j)
    /\ \A i \in Headings : (k < i /\ i < j) => Depth(i) >= Depth(k)

\* the number of earlier siblings of heading j whose title gives the same slug
Repeats(j) ==
    Cardinality({k \in Headings : Siblings(k, j) /\ slugify(Title(k)) = slugify(Title(j))})

\* the first heading with a title gets the bare slug, a repeated one the
\* suffix -<count>
SlugNaming ==
    \A j \in Headings :
        Slug(j) = IF Repeats(j) = 0 THEN slugify(Title(j))
                  ELSE slugify(Title(j)) \o <<"-", ToString(Repeats(j))>>

\* C20: within one segmentation no two headings at the same depth under the
\* same parent heading receive the same slug; the first heading with a given
\* title gets the bare slug and a repeated title gets the suffix -<count>.
C20_SiblingSlugsDistinct ==
    /\ \A k, j \in Headings : Siblings(k, j) => Slug(k) # Slug(j)
    /\ SlugNaming

----------------------------------------------------------------------------
(* Claims on the segmentation, checked under SpecSegment *)

\* blocks j and k lie in the same section and are of the same kind
SameGroup(j, k) == blocks[j].path = blocks[k].path /\ blocks[j].type = blocks[k].type

\* the nearest block before k of k's section and kind (0: none)
PrevInGroup(k) ==
    LET earlier == {j \in 1..(k - 1) : SameGroup(j, k)}
    IN  IF earlier = {} THEN 0 ELSE CHOOSE j \in earlier : \A i \in earlier : i <= j

\* C21: in every segmentation the idx_in_section values of the blocks that
\* share one (path, kind) are 0, 1, 2, ... in document order, and no two
\* blocks have the same context id.
C21_SectionIndicesCountUp ==
    /\ \A k \in 1..Len(blocks) :
          blocks[k].idx_in_section =
              IF PrevInGroup(k) = 0 THEN 0
              ELSE blocks[PrevInGroup(k)].idx_in_section + 1
    /\ \A j, k \in 1..Len(blocks) :
          j # k => context_id(blocks[j]) # context_id(blocks[k])

\* a section holds two blocks of one kind with a block of another kind
\* between them
C21_Witness ==
    /\ hist.op = "segment" /\ Len(blocks) = 3
    /\ SameGroup(1, 3) /\ blocks[2].path = blocks[1].path
    /\ blocks[2].type # blocks[1].type
    /\ blocks[3].idx_in_section = 1

----------------------------------------------------------------------------
(* SpecParse: segment_markdown on documents over every kind of line *)

MaxParseLines == 4

ParseBodies ==
    {BlankBody, TextBody("a"), HeadingBody("A"), RuleBody, QuoteBody("q"),
     Body(0, "hr", 0, <<"- - -">>, FALSE),     \* "- - -"
     Body(0, "bullet", 0, <<"x">>, FALSE),     \* "- x"
     Body(2, "bullet", 0, <<"x">>, FALSE),     \* "  - x"
     Body(0, "num", 0, <<"x">>, FALSE),        \* "1. x"
     Body(2, "num", 0, <<"x">>, FALSE),        \* "  1. x"
     Body(0, "fence", 0, <<"~~~">>, FALSE),    \* "~~~"
     Body(0, "pipe", 0, <<"x">>, TRUE),        \* "| x"
     Body(0, "text", 0, <<"a", "b">>, TRUE),   \* "a | b"
     Body(0, "hashtag", 0, <<"x">>, FALSE)}    \* "#x"
ParseDocs == LfDocs(ParseBodies, MaxParseLines)

InitParse ==
    /\ doc \in ParseDocs
    /\ blocks = << >>
    /\ po = << >>
    /\ disk = << >>
    /\ pool = << >>
    /\ out = << >>
    /\ pc = "idle"
    /\ cur = 0
    /\ stats = ZeroStats
    /\ sent = << >>
    /\ hist = NoHist
    /\ ret = << >>

\* segment_markdown([line.rstrip("\n") for line in source_lines])
Parse ==
    /\ hist.op = "init"
    /\ blocks' = segment_markdown(StripAll(doc))
    /\ hist' = [op |-> "segment", case |-> "none", pending0 |-> {}]
    /\ UNCHANGED <<doc, po, disk, pool, out, pc, cur, stats, sent, ret>>

NextParse == Parse

SpecParse == InitParse /\ [][NextParse]_vars

\* line i (0-based) of the document lies in block k
Covers(k, i) == blocks[k].start <= i /\ i < blocks[k].end

\* C22: segment_markdown returns blocks in increasing line order with
\* 0 <= start < end <= len(lines), each block starting at or after the end of
\* the block before it, and every line that no block covers is blank.
C22_BlocksPartitionTheLines ==
    hist.op = "segment" =>
        /\ \A k \in 1..Len(blocks) :
              /\ 0 <= blocks[k].start
              /\ blocks[k].start < blocks[k].end
              /\ blocks[k].end <= Len(doc)
        /\ \A k \in 1..(Len(blocks) - 1) : blocks[k].end <= blocks[k + 1].start
        /\ \A i \in 0..(Len(doc) - 1) :
              (\A k \in 1..Len(blocks) : ~Covers(k, i)) => doc[i + 1].mark = "blank"

\* a document with a fence that is never closed, after a list and a blank line
\* that no block covers
C22_Witness ==
    /\ hist.op = "segment" /\ Len(doc) = 4 /\ Len(blocks) = 2
    /\ blocks[1].type \in {"ulist", "olist"}
    /\ doc[2].mark = "blank" /\ ~Covers(1, 1) /\ ~Covers(2, 1)
    /\ blocks[2].type = "code" /\ blocks[2].end = 4 /\ doc[4].mark # "fence"

\* the first line after line i (0-based) that is not blank; Len(doc) if none
NextNonBlank(i) ==
    LET later == {j \in (i + 1)..(Len(doc) - 1) : doc[j + 1].mark # "blank"}
    IN  IF later = {} THEN Len(doc) ELSE CHOOSE j \in later : \A n \in later : j <= n

\* C27 as stated: a blank line is consumed into a list block only if, after
\* skipping any further blank lines, the next line is a list item of the same
\* ordered-ness at the list's base indentation.
C27_Original ==
    hist.op = "segment" =>
        \A k \in 1..Len(blocks) :
            blocks[k].type \in {"ulist", "olist"} =>
                \A i \in 0..(Len(doc) - 1) :
                    (Covers(k, i) /\ doc[i + 1].mark = "blank") =>
                        LET n == NextNonBlank(i)
                            first == Rstrip(doc[blocks[k].start + 1])
                        IN  /\ n < Len(doc)
                            /\ IsListItem(Rstrip(doc[n + 1]))
                            /\ IsOrdered(Rstrip(doc[n + 1])) = IsOrdered(first)
                            /\ doc[n + 1].ind = first.ind

\* the blank line i met while scanning list block k is followed, after any
\* further blank lines, by a line with the shape of a list item that is not an
\* item of the other ordered-ness at the list's base indentation
ItemFollows(k, i) ==
    LET n == NextNonBlank(i)
        first == Rstrip(doc[blocks[k].start + 1])
    IN  /\ n < Len(doc)
        /\ IsListItem(Rstrip(doc[n + 1]))
        /\ ~(doc[n + 1].ind = first.ind
             /\ IsOrdered(Rstrip(doc[n + 1])) # IsOrdered(first))

\* C27: a blank line met while scanning a list (a line of the block after the
\* first, or the line the block ends at) is consumed into the list block
\* exactly when ItemFollows; otherwise the block ends before it.
C27_BlankInListNeedsItem ==
    hist.op = "segment" =>
        \A k \in 1..Len(blocks) :
            blocks[k].type \in {"ulist", "olist"} =>
                \A i \in (blocks[k].start + 1)..Min(blocks[k].end, Len(doc) - 1) :
                    doc[i + 1].mark = "blank" => (Covers(k, i) <=> ItemFollows(k, i))

\* an unordered list took a blank line that an indented numbered item follows
C27_Witness ==
    /\ hist.op = "segment" /\ Len(blocks) = 1 /\ blocks[1].type = "ulist"
    /\ Len(doc) = 3 /\ blocks[1].end = 3
    /\ doc[2].mark = "blank" /\ doc[3].mark = "num" /\ doc[3].ind = 2

----------------------------------------------------------------------------
(* Claim on the line endings of the rebuilt document, checked under
   SpecRebuild *)

\* C23: every line of rebuild_markdown's output is terminated by a newline
\* character, whatever the line endings of the source lines: in the output
\* a line's content is followed by "\n", or by "\r\n", and nothing else ends
\* a line.
C23_OutputLinesEndWithNewline ==
    hist.op = "rebuild" =>
        \A i \in 1..Len(out) :
            /\ out[i].ch = "content" =>
                  (i < Len(out) /\ out[i + 1].ch \in {"\\r", "\\n"})
            /\ out[i].ch = "\\r" => (i < Len(out) /\ out[i + 1].ch = "\\n")

----------------------------------------------------------------------------
(* SpecDir: process_directory. The worker threads each run process_document
   (inplace=False) on one matched file; the main thread collects the futures
   as they complete. In this specification doc, blocks, po, pool, out, pc,
   cur, stats and sent are functions of the file (each call's locals, and the
   target file it writes), disk is a function of the path of the PO file, and
   ret is the dictionary the main thread builds. *)

MaxDirLines == 1

\* a source file: <<stem, suffix>>, relative to source_dir
GuideMd == <<"guide", "md">>
GuideMarkdown == <<"guide", "markdown">>
NotesMd == <<"notes", "md">>

\* what source_dir can hold
SourceDirs == {{GuideMd, NotesMd}, {GuideMd, GuideMarkdown}}

\* the glob patterns: the default, and one for both suffixes
Globs == {"**/*.md", "**/*.m*"}

\* sorted(source_dir.glob(glob)), as a set
Matched(dir, glob) == {f \in dir : glob = "**/*.m*" \/ f[2] = "md"}

\* po_dir / relative_path.with_suffix(".po")
PoPath(f) == <<f[1], "po">>

DirDocs == LfDocs({TextBody("a"), RuleBody}, MaxDirLines)

\* a PO file before the call: none, or one left by an earlier run
DirCatalogs ==
    {<< >>, <<[msgctxt |-> <<"::", "para", ":", "0">>, msgid |-> <<Rstrip(Raw(TextBody("a"), "LF"))>>,
               msgstr |-> TrText, fuzzy |-> FALSE, obsolete |-> FALSE]>>}

\* one turn of the for loop of _process_entries_sequential on entry k, the
\* collaborator answering (ok) or raising: the catalog, the statistics and the
\* pool after it
LoopTurn(entries, k, st, pairs, ok) ==
    LET e == entries[k] IN
    IF e.obsolete THEN [po |-> entries, stats |-> st, pool |-> pairs]
    ELSE IF IsSkipEntry(e)
    THEN [po |-> entries, stats |-> [st EXCEPT !.skipped = @ + 1], pool |-> pairs]
    ELSE IF ~NeedsTranslation(e) THEN [po |-> entries, stats |-> st, pool |-> pairs]
    ELSE IF ok
    THEN [po |-> [entries EXCEPT ![k] = EntryProcessed(@, TrText)],
          stats |-> [st EXCEPT !.processed = @ + 1],
          pool |-> PoolAdd(pairs, e.msgid, TrText)]
    ELSE [po |-> [entries EXCEPT ![k] = EntryFailed(@)],
          stats |-> [st EXCEPT !.failed = @ + 1], pool |-> pairs]

\* the for loop from entry k on
RECURSIVE LoopFrom(_, _, _, _, _)
LoopFrom(entries, k, st, pairs, ok) ==
    IF k > Len(entries) THEN [po |-> entries, stats |-> st, pool |-> pairs]
    ELSE LET t == LoopTurn(entries, k, st, pairs, ok)
         IN  LoopFrom(t.po, k + 1, t.stats, t.pool, ok)

\* process_document(source, target, po_path) run alone on document d with the
\* PO file holding file: what it leaves in the PO file and in the target, the
\* statistics, and whether it raises
Alone(d, file, ok) ==
    LET bs == segment_markdown(StripAll(d))
        loaded == load_or_create_po(file)
    IN  IF sync_po_raises(loaded, bs)
        THEN [disk |-> save_po(loaded, file), out |-> << >>, stats |-> ZeroStats,
              raised |-> TRUE]
        ELSE LET synced == sync_po(loaded, bs)
                 t == LoopFrom(synced, 1, ZeroStats, seed_from_po(synced), ok)
             IN  [disk |-> save_po(t.po, file),
                  out |-> rebuild_markdown(d, bs, t.po),
                  stats |-> t.stats,
                  raised |-> t.po = << >>]

\* the matched files, and the files source_dir can hold
Files == DOMAIN pc
AllFiles == {GuideMd, GuideMarkdown, NotesMd}

Running == {f \in Files : pc[f] \in {"start", "loop"}}

\* the executor takes a submitted call when a worker thread is free
WorkerTake(f) ==
    /\ pc[f] = "submitted"
    /\ Cardinality(Running) < hist.max_workers
    /\ pc' = [pc EXCEPT ![f] = "start"]
    /\ hist' = [hist EXCEPT !.op = "take"]
    /\ UNCHANGED <<doc, blocks, po, disk, pool, out, cur, stats, sent, ret>>

\* steps 1 and 2 of process_document in a worker thread; when sync_po raises,
\* save_po in the finally raises too
WorkerStart(f) ==
    /\ pc[f] = "start"
    /\ blocks' = [blocks EXCEPT ![f] = segment_markdown(StripAll(doc[f]))]
    /\ LET loaded == load_or_create_po(disk[PoPath(f)])
       IN  IF sync_po_raises(loaded, blocks'[f])
           THEN /\ po' = [po EXCEPT ![f] = loaded]
                /\ pc' = [pc EXCEPT ![f] = "raised"]
                /\ UNCHANGED <<pool, cur>>
           ELSE /\ po' = [po EXCEPT ![f] = sync_po(loaded, blocks'[f])]
                /\ pool' = [pool EXCEPT ![f] = seed_from_po(po'[f])]
                /\ cur' = [cur EXCEPT ![f] = 1]
                /\ pc' = [pc EXCEPT ![f] = "loop"]
    /\ hist' = [hist EXCEPT !.op = "start"]
    /\ UNCHANGED <<doc, disk, out, stats, sent, ret>>

\* one turn of the loop in a worker thread
WorkerLoop(f) ==
    /\ pc[f] = "loop" /\ cur[f] <= Len(po[f])
    /\ LET t == LoopTurn(po[f], cur[f], stats[f], pool[f], hist.oracle[f])
       IN  /\ po' = [po EXCEPT ![f] = t.po]
           /\ stats' = [stats EXCEPT ![f] = t.stats]
           /\ pool' = [pool EXCEPT ![f] = t.pool]
    /\ cur' = [cur EXCEPT ![f] = @ + 1]
    /\ hist' = [hist EXCEPT !.op = "turn"]
    /\ UNCHANGED <<doc, blocks, disk, out, pc, sent, ret>>

\* steps 5 and 6 and the finally in a worker thread: the target is written,
\* the catalog saved; save_po raises for a catalog without entries
WorkerFinish(f) ==
    /\ pc[f] = "loop" /\ cur[f] > Len(po[f])
    /\ out' = [out EXCEPT ![f] = rebuild_markdown(doc[f], blocks[f], po[f])]
    /\ disk' = [disk EXCEPT ![PoPath(f)] = save_po(po[f], @)]
    /\ pc' = [pc EXCEPT ![f] = IF po[f] = << >> THEN "raised" ELSE "returned"]
    /\ hist' = [hist EXCEPT !.op = "finish"]
    /\ UNCHANGED <<doc, blocks, po, pool, cur, stats, sent, ret>>

\* CollectResult with a slip: a file whose call raised leaves no record
CollectResult_DropsFailed(r, f, raised, processed) ==
    IF raised THEN [r EXCEPT !.files_failed = @ + 1]
    ELSE [r EXCEPT !.results = Append(@, [source_path |-> f, error |-> FALSE]),
                   !.files_skipped = IF processed = 0 THEN @ + 1 ELSE @,
                   !.files_processed = IF processed = 0 THEN @ ELSE @ + 1]

\* the body of the "for future in as_completed" loop of process_directory
CollectResult(r, f, raised, processed) ==
    IF raised
    THEN [r EXCEPT !.files_failed = @ + 1,
                   !.results = Append(@, [source_path |-> f, error |-> TRUE])]
    ELSE [r EXCEPT !.results = Append(@, [source_path |-> f, error |-> FALSE]),
                   !.files_skipped = IF processed = 0 THEN @ + 1 ELSE @,
                   !.files_processed = IF processed = 0 THEN @ ELSE @ + 1]

\* the main thread takes a completed future
Collect(f) ==
    /\ pc[f] \in {"returned", "raised"}
    /\ ret' = CollectResult(ret, f, pc[f] = "raised", stats[f].processed)
    /\ pc' = [pc EXCEPT ![f] = "collected"]
    /\ hist' = [hist EXCEPT !.op = "collect", !.raised = @ \cup (IF pc[f] = "raised" THEN {f} ELSE {})]
    /\ UNCHANGED <<doc, blocks, po, disk, pool, out, cur, stats, sent>>

InitDir ==
    \E dir \in SourceDirs, glob \in Globs, workers \in 1..2 :
        LET files == Matched(dir, glob) IN
        /\ doc \in [files -> DirDocs]
        /\ disk \in [{PoPath(f) : f \in files} -> DirCatalogs]
        /\ blocks = [f \in files |-> << >>]
        /\ po = [f \in files |-> << >>]
        /\ pool = [f \in files |-> << >>]
        /\ out = [f \in files |-> << >>]
        /\ pc = [f \in files |-> "submitted"]
        /\ cur = [f \in files |-> 0]
        /\ stats = [f \in files |-> ZeroStats]
        /\ sent = << >>
        /\ ret = [files_processed |-> 0, files_failed |-> 0, files_skipped |-> 0,
                  results |-> << >>]
        /\ \E oracle \in [files -> BOOLEAN] :
              hist = [op |-> "init", case |-> "none", pending0 |-> {},
                      max_workers |-> workers, oracle |-> oracle, disk0 |-> disk,
                      raised |-> {}]

NextDir ==
    \/ \E f \in AllFiles : f \in Files /\ WorkerTake(f)
    \/ \E f \in AllFiles : f \in Files /\ WorkerStart(f)
    \/ \E f \in AllFiles : f \in Files /\ WorkerLoop(f)
    \/ \E f \in AllFiles : f \in Files /\ WorkerFinish(f)
    \/ \E f \in AllFiles : f \in Files /\ Collect(f)

SpecDir == InitDir /\ [][NextDir]_vars

\* the main thread and the worker threads keep running
SpecDirFair == SpecDir /\ WF_vars(NextDir)

\* the call for file f is over
Over(f) == pc[f] \in {"returned", "raised", "collected"}

\* what the call for file f left is what the call alone would have left
AsAlone(f) ==
    LET a == Alone(doc[f], hist.disk0[PoPath(f)], hist.oracle[f])
    IN  /\ disk[PoPath(f)] = a.disk
        /\ out[f] = a.out
        /\ stats[f] = a.stats

\* C24: the concurrent process_document calls of process_directory share no
\* mutable state: under every interleaving, once the calls are over each
\* file's catalog, target document and statistics are those of processing
\* that file alone.
C24_FilesProcessedAsAlone ==
    (\A f \in Files : Over(f)) => \A f \in Files : AsAlone(f)

\* the same for the matched files that have pairwise different PO paths
DistinctPoPathsAsAlone ==
    (/\ \A f \in Files : Over(f)
     /\ \A f, g \in Files : f # g => PoPath(f) # PoPath(g))
        => \A f \in Files : AsAlone(f)

\* every future was collected by the main thread
AllCollected == \A f \in Files : pc[f] = "collected"

\* the counters add up to the number of matched files and every matched file
\* has exactly one result record
CountsAddUp ==
    /\ ret.files_processed + ret.files_skipped + ret.files_failed = Cardinality(Files)
    /\ Len(ret.results) = Cardinality(Files)
    /\ \A f \in Files :
          Cardinality({k \in 1..Len(ret.results) : ret.results[k].source_path = f}) = 1
    /\ ret.files_failed = Cardinality(hist.raised)

\* C25: process_directory attempts every matched file, also after the call for
\* another file raised: every future is eventually collected, and then
\* files_processed + files_skipped + files_failed is the number of matched
\* files, with exactly one result record per file.
C25_EveryFileAttemptedAndCounted ==
    /\ [](AllCollected => CountsAddUp)
    /\ <>AllCollected

\* the call for one file raised and was collected first, and the call for the
\* other file was then run to its end and collected
C25_Witness ==
    /\ AllCollected /\ Len(ret.results) = 2
    /\ ret.results[1].error /\ ~ret.results[2].error
    /\ hist.max_workers = 1
    /\ ret.files_failed = 1 /\ ret.files_processed = 1

----------------------------------------------------------------------------
(* SpecShared: two segment_markdown calls on one BlockParser instance that
   overlap in time (two threads). In this specification doc, blocks, cur, pc
   and out are functions of the call: its lines, the list "blocks" it builds,
   its index i, where it stands, and its list "path"; stats is the instance
   field slug_counters, which both calls read and write. A level whose
   dictionary is empty is the record with the empty slug. The docs hold
   headings and prose only. One step is one line of the input, a heading
   taking two: the threads can switch more often than that. *)

MaxSharedLines == 2

Calls == {1, 2}

SharedDocs ==
    LfDocs({HeadingBody("Setup"), HeadingBody("A"), Heading2Body("Setup"), TextBody("a")},
           MaxSharedLines)

\* slug_counters[level] = {}
EmptyLevel(level) == [level |-> level, slug |-> << >>, count |-> 0]

\* level in self.slug_counters
HasLevel(counters, level) == \E c \in counters : c.level = level

\* "self.slug_counters = {}" and the locals of segment_markdown
CallBegin(c) ==
    /\ pc[c] = "idle"
    /\ stats' = {}
    /\ blocks' = [blocks EXCEPT ![c] = << >>]
    /\ out' = [out EXCEPT ![c] = << >>]
    /\ cur' = [cur EXCEPT ![c] = 0]
    /\ pc' = [pc EXCEPT ![c] = "scan"]
    /\ hist' = [hist EXCEPT !.op = "begin"]
    /\ UNCHANGED <<doc, po, disk, pool, sent, ret>>

\* the while loop reaches a heading: _parse_heading up to
\* "if level not in self.slug_counters: self.slug_counters[level] = {}"
HeadingEnter(c) ==
    /\ pc[c] = "scan" /\ cur[c] < Len(doc[c])
    /\ IsHeading(Rstrip(doc[c][cur[c] + 1]))
    /\ LET level == doc[c][cur[c] + 1].lvl
       IN  stats' = IF HasLevel(stats, level) THEN stats
                    ELSE stats \cup {EmptyLevel(level)}
    /\ pc' = [pc EXCEPT ![c] = "heading"]
    /\ hist' = [hist EXCEPT !.op = "enter"]
    /\ UNCHANGED <<doc, blocks, po, disk, pool, out, cur, sent, ret>>

\* the rest of _parse_heading: the slug is made unique with
\* self.slug_counters[level] (KeyError when the level is not there any more),
\* the deeper levels are cleared, the path and the block list updated
HeadingLeave(c) ==
    /\ pc[c] = "heading"
    /\ LET ls == StripAll(doc[c])
           line == At(ls, cur[c])
           base_slug == slugify(line.txt)
           unique_slug == HeadingSlug(stats, line.lvl, base_slug)
           newpath == HeadingPath(out[c], line.lvl, unique_slug)
       IN  IF ~HasLevel(stats, line.lvl)
           THEN /\ pc' = [pc EXCEPT ![c] = "raised"]
                /\ UNCHANGED <<stats, blocks, out, cur>>
           ELSE /\ stats' = HeadingCounters(stats, line.lvl, base_slug)
                /\ out' = [out EXCEPT ![c] = newpath]
                /\ blocks' = [blocks EXCEPT
                                ![c] = Append(@, MkBlock("heading", ls, cur[c], cur[c] + 1, newpath))]
                /\ cur' = [cur EXCEPT ![c] = @ + 1]
                /\ pc' = [pc EXCEPT ![c] = "scan"]
    /\ hist' = [hist EXCEPT !.op = "leave"]
    /\ UNCHANGED <<doc, po, disk, pool, sent, ret>>

\* the while loop reaches a line that is no heading: a paragraph
ParagraphStep(c) ==
    /\ pc[c] = "scan" /\ cur[c] < Len(doc[c])
    /\ ~IsHeading(Rstrip(doc[c][cur[c] + 1]))
    /\ LET ls == StripAll(doc[c])
           e == ParseParagraphEnd(ls, cur[c])
       IN  /\ blocks' = [blocks EXCEPT ![c] = Append(@, MkBlock("para", ls, cur[c], e, out[c]))]
           /\ cur' = [cur EXCEPT ![c] = e]
    /\ hist' = [hist EXCEPT !.op = "para"]
    /\ UNCHANGED <<doc, po, disk, pool, out, pc, stats, sent, ret>>

\* the end of the while loop: _add_section_indices and return
CallEnd(c) ==
    /\ pc[c] = "scan" /\ cur[c] >= Len(doc[c])
    /\ blocks' = [blocks EXCEPT ![c] = add_section_indices(@)]
    /\ pc' = [pc EXCEPT ![c] = "done"]
    /\ hist' = [hist EXCEPT !.op = "end"]
    /\ UNCHANGED <<doc, po, disk, pool, out, cur, stats, sent, ret>>

InitShared ==
    /\ doc \in [Calls -> SharedDocs]
    /\ blocks = [c \in Calls |-> << >>]
    /\ po = << >>
    /\ disk = << >>
    /\ pool = << >>
    /\ out = [c \in Calls |-> << >>]
    /\ pc = [c \in Calls |-> "idle"]
    /\ cur = [c \in Calls |-> 0]
    /\ stats = {}
    /\ sent = << >>
    /\ hist = NoHist
    /\ ret = << >>

NextShared ==
    \/ \E c \in Calls : CallBegin(c)
    \/ \E c \in Calls : HeadingEnter(c)
    \/ \E c \in Calls : HeadingLeave(c)
    \/ \E c \in Calls : ParagraphStep(c)
    \/ \E c \in Calls : CallEnd(c)

SpecShared == InitShared /\ [][NextShared]_vars

\* C26: when two segment_markdown calls on one instance overlap in time, under
\* every interleaving each call returns, and returns the blocks, heading paths
\* and slugs it returns when it runs alone.
C26_SharedParserAsAlone ==
    \A c \in Calls :
        /\ pc[c] # "raised"
        /\ pc[c] = "done" => blocks[c] = segment_markdown(StripAll(doc[c]))

----------------------------------------------------------------------------
(* SpecLive: process_document (inplace=False) run to its end again and again
   on a document that does not change, from a PO file left by earlier runs *)

MaxLiveLines == 2

LiveDocs == LfDocs({TextBody("a"), TextBody("b"), RuleBody}, MaxLiveLines)

InitLive ==
    /\ doc \in LiveDocs
    /\ blocks = segment_markdown(StripAll(doc))
    /\ disk \in {CatalogIn(blocks, f) : f \in ConditionsOf(blocks)}
    /\ po = << >>
    /\ pool = << >>
    /\ out = << >>
    /\ pc = "idle"
    /\ cur = 0
    /\ stats = ZeroStats
    /\ sent = << >>
    /\ hist = NoHist
    /\ ret = << >>

NextLive ==
    \/ StartRun(doc)
    \/ LoopContinue
    \/ \E r \in Answers : LoopSuccess(r)
    \/ LoopFailure
    \/ FinishRun

\* a run that can take a step takes one, and runs keep being started
SpecLive == InitLive /\ [][NextLive]_vars /\ WF_vars(NextLive)

\* every non-skip unit of the document is complete in the catalog in memory
AllComplete ==
    \A k \in 1..Len(blocks) :
        blocks[k].type \notin SKIP_TYPES => HasCompleteEntry(po, blocks[k])

\* the units whose call failed in the run that sent what is in "sent"
FailedUnits == {sent[i].ctx : i \in {j \in 1..Len(sent) : ~sent[j].ok}}

\* C28: a unit whose call fails stays pending and is attempted again in the
\* next run; if the document does not change and each unit's call eventually
\* succeeds (here: with a text that is not empty), every non-skip unit
\* eventually becomes complete and stays complete; and a run that starts with
\* every unit complete makes no collaborator call.
C28_FailedUnitsRetriedUntilComplete ==
    /\ [][/\ hist'.op = "fail" => NeedsTranslation(po'[cur])
          /\ hist'.op = "start" => FailedUnits \subseteq hist'.pending0
          /\ (hist.pending0 = {} /\ pc = "loop") => sent' = << >>]_vars
    /\ SF_vars(LoopSuccess(TrText)) => <>[]AllComplete

----------------------------------------------------------------------------
(* Claims on the processing loop, checked under Spec *)

\* the step is a turn of the processing loop
LoopStep == hist'.op \in {"continue", "ok", "fail"}

\* C29: the processing loop never adds or removes an entry, never sets the
\* stale flag and never marks an entry obsolete; it modifies only the entry it
\* has reached, and only if that entry was pending (not obsolete, not of a skip
\* kind, without processed text or stale): complete entries and entries of a
\* skip kind keep every field.
C29_LoopWritesOnlyPendingEntries ==
    [][LoopStep =>
          /\ Len(po') = Len(po)
          /\ \A k \in 1..Len(po) :
                /\ po'[k].msgctxt = po[k].msgctxt
                /\ po'[k].obsolete = po[k].obsolete
                /\ po'[k].fuzzy => po[k].fuzzy
                /\ po'[k] # po[k] =>
                      /\ k = cur
                      /\ ~po[k].obsolete /\ ~IsSkipEntry(po[k])
                      /\ NeedsTranslation(po[k])]_vars

\* the loop went past a skip entry and a complete entry, which it did not
\* send, and processed a pending one
C29_Witness ==
    /\ hist.op = "ok" /\ Len(po) = 3 /\ cur = 4
    /\ \E k \in 1..2 : IsSkipEntry(po[k])
    /\ \E k \in 1..2 :
          /\ ~IsSkipEntry(po[k]) /\ Complete(po[k])
          /\ \A i \in 1..Len(sent) : sent[i].ctx # po[k].msgctxt
    /\ Len(sent) = 1 /\ sent[1].ctx = po[3].msgctxt

\* C30: every pair the processing loop adds to the reference pool is (the
\* source text that was sent to the collaborator for the unit, the processed
\* text it returned); checked in inplace mode under SpecInplace.
C30_PoolPairIsSentAndReturned ==
    [][hist'.op = "ok" =>
          pool' = Append(pool, <<sent'[Len(sent')].text, po'[cur].msgstr>>)]_vars

====
